---- MODULE Spec2Model ----
(***************************************************************************)
(* cgtcalc-data-transformer: broker CSV rows are parsed into canonical     *)
(* transaction records, formatted as lines and merged into data.txt.       *)
(*                                                                         *)
(* Strings are TLC strings handled character by character (SubSeq, Len,    *)
(* \o), so trim, split, parseInt and parseFloat are computed as            *)
(* JavaScript computes them.  A JavaScript number is a record [k, v]: k is *)
(* "num", "NaN", "Infinity" or "-Infinity" and v counts thousandths.       *)
(***************************************************************************)
EXTENDS Integers, Sequences, FiniteSets, TLC

VARIABLES
    version,    \* which revision of main() is running
    dataTxt,    \* the persisted file data.txt: [exists, content]
    pc,         \* position of main(): "idle", "parsed", "done" or the error it threw
    run,        \* the current invocation: its arguments and input rows
    results,    \* lines returned by the parser's parseToFormat
    runs,       \* number of invocations started
    unit,       \* the input unit handed to a row parser (row-level specification)
    outcome     \* what the row parser did with it

vars == <<version, dataTxt, pc, run, results, runs, unit, outcome>>

(***************************************************************************)
(* JavaScript strings                                                      *)
(***************************************************************************)
Ch(s, i) == SubSeq(s, i, i)

\* s.substring(i - 1, j): the characters i..j of s that exist
substring(s, i, j) ==
    IF i > j \/ i > Len(s) THEN ""
    ELSE SubSeq(s, i, IF j > Len(s) THEN Len(s) ELSE j)

IsWhiteSpace(c) == c \in {" ", "\t", "\n", "\r"}

RECURSIVE trimStart(_)
trimStart(s) ==
    IF Len(s) > 0 /\ IsWhiteSpace(Ch(s, 1))
    THEN trimStart(SubSeq(s, 2, Len(s)))
    ELSE s

RECURSIVE trimEnd(_)
trimEnd(s) ==
    IF Len(s) > 0 /\ IsWhiteSpace(Ch(s, Len(s)))
    THEN trimEnd(SubSeq(s, 1, Len(s) - 1))
    ELSE s

trim(s) == trimEnd(trimStart(s))

\* s.split(sep) for a one-character separator: "".split(" ") is <<"">>.
\* cuts are the positions of the separator, cutAt(k) the k-th of them.
cutAt(cuts, k, end) ==
    IF k = 0 THEN 0
    ELSE IF k > Cardinality(cuts) THEN end
    ELSE CHOOSE p \in cuts : Cardinality({q \in cuts : q < p}) = k - 1

splitAt(s, cuts) ==
    [k \in 1..(Cardinality(cuts) + 1) |->
        substring(s, cutAt(cuts, k - 1, Len(s) + 1) + 1, cutAt(cuts, k, Len(s) + 1) - 1)]

split(s, sep) == splitAt(s, {i \in 1..Len(s) : Ch(s, i) = sep})

RECURSIVE join(_, _)
join(seq, sep) ==
    IF Len(seq) = 0 THEN ""
    ELSE IF Len(seq) = 1 THEN seq[1]
    ELSE seq[1] \o sep \o join(Tail(seq), sep)

includes(s, sub) ==
    \E i \in 1..(Len(s) - Len(sub) + 1) : substring(s, i, i + Len(sub) - 1) = sub

UpperCaseLetters == "ABCDEFGHIJKLMNOPQRSTUVWXYZ"
LowerCaseLetters == "abcdefghijklmnopqrstuvwxyz"

LowerCh(c) ==
    IF \E i \in 1..26 : Ch(UpperCaseLetters, i) = c
    THEN Ch(LowerCaseLetters, CHOOSE i \in 1..26 : Ch(UpperCaseLetters, i) = c)
    ELSE c

RECURSIVE toLowerCase(_)
toLowerCase(s) ==
    IF Len(s) = 0 THEN ""
    ELSE LowerCh(Ch(s, 1)) \o toLowerCase(SubSeq(s, 2, Len(s)))

\* s.replace(/[chars]/g, '') : drop every character of the class
RECURSIVE removeChars(_, _)
removeChars(s, class) ==
    IF Len(s) = 0 THEN ""
    ELSE (IF Ch(s, 1) \in class THEN "" ELSE Ch(s, 1))
         \o removeChars(SubSeq(s, 2, Len(s)), class)

RECURSIVE padStart(_, _, _)
padStart(s, n, c) == IF Len(s) >= n THEN s ELSE padStart(c \o s, n, c)

(***************************************************************************)
(* JavaScript numbers                                                      *)
(***************************************************************************)
Unit == 10 * 10 * 10

Num(v) == [k |-> "num", v |-> v]
NaN == [k |-> "NaN", v |-> 0]
Infinity == [k |-> "Infinity", v |-> 0]
NegInfinity == [k |-> "-Infinity", v |-> 0]

Digits == "0123456789"
IsDigit(c) == \E i \in 1..10 : Ch(Digits, i) = c
DigitVal(c) == (CHOOSE i \in 1..10 : Ch(Digits, i) = c) - 1

\* number of leading decimal digits of s from position i
RECURSIVE digitRun(_, _)
digitRun(s, i) ==
    IF i <= Len(s) /\ IsDigit(Ch(s, i)) THEN 1 + digitRun(s, i + 1) ELSE 0

\* value of the digit string s[i .. i+n-1]
RECURSIVE digitsValue(_, _, _)
digitsValue(s, i, n) ==
    IF n = 0 THEN 0
    ELSE 10 * digitsValue(s, i, n - 1) + DigitVal(Ch(s, i + n - 1))

\* the fraction digits s[i .. i+n-1] as thousandths (digits past the third are cut)
fractionValue(s, i, n) ==
    IF n = 0 THEN 0
    ELSE IF n = 1 THEN 100 * digitsValue(s, i, 1)
    ELSE IF n = 2 THEN 10 * digitsValue(s, i, 2)
    ELSE digitsValue(s, i, 3)

isNaN(n) == n.k = "NaN"
isFinite(n) == n.k = "num"
IsZero(n) == n.k = "num" /\ n.v = 0
IsPositive(n) == (n.k = "num" /\ n.v > 0) \/ n.k = "Infinity"
IsNegative(n) == (n.k = "num" /\ n.v < 0) \/ n.k = "-Infinity"
Truthy(n) == ~isNaN(n) /\ ~IsZero(n)

Math_abs(n) ==
    IF n.k = "num" THEN Num(IF n.v < 0 THEN -n.v ELSE n.v)
    ELSE IF n.k = "NaN" THEN NaN ELSE Infinity

Negate(n) ==
    IF n.k = "num" THEN Num(-n.v)
    ELSE IF n.k = "NaN" THEN NaN
    ELSE IF n.k = "Infinity" THEN NegInfinity ELSE Infinity

\* x || 0
OrZero(n) == IF Truthy(n) THEN n ELSE Num(0)

\* parseFloat(s): leading white space, a sign, then "Infinity" or digits with an
\* optional fraction; the longest such prefix is the value, NaN when there is none.
parseFloatUnsigned(s, i) ==
    LET n1 == digitRun(s, i)
        dot == i + n1 <= Len(s) /\ Ch(s, i + n1) = "."
        n2 == IF dot THEN digitRun(s, i + n1 + 1) ELSE 0
    IN  IF substring(s, i, i + 7) = "Infinity" THEN Infinity
        ELSE IF n1 = 0 /\ n2 = 0 THEN NaN
        ELSE Num(Unit * digitsValue(s, i, n1) + fractionValue(s, i + n1 + 1, n2))

parseFloat(str) ==
    LET s == trimStart(str)
    IN  IF Len(s) > 0 /\ Ch(s, 1) = "-" THEN Negate(parseFloatUnsigned(s, 2))
        ELSE IF Len(s) > 0 /\ Ch(s, 1) = "+" THEN parseFloatUnsigned(s, 2)
        ELSE parseFloatUnsigned(s, 1)

\* parseInt(s, 10): leading white space, a sign, then digits; NaN when there are none.
parseIntUnsigned(s, i) ==
    LET n1 == digitRun(s, i)
    IN  IF n1 = 0 THEN NaN ELSE Num(Unit * digitsValue(s, i, n1))

parseInt(str) ==
    LET s == trimStart(str)
    IN  IF Len(s) > 0 /\ Ch(s, 1) = "-" THEN Negate(parseIntUnsigned(s, 2))
        ELSE IF Len(s) > 0 /\ Ch(s, 1) = "+" THEN parseIntUnsigned(s, 2)
        ELSE parseIntUnsigned(s, 1)

RECURSIVE NatToString(_)
NatToString(n) ==
    IF n < 10 THEN Ch(Digits, n + 1)
    ELSE NatToString(n \div 10) \o Ch(Digits, (n % 10) + 1)

RECURSIVE stripTrailingZeros(_)
stripTrailingZeros(s) ==
    IF Len(s) > 0 /\ Ch(s, Len(s)) = "0"
    THEN stripTrailingZeros(SubSeq(s, 1, Len(s) - 1))
    ELSE s

\* String(n), the conversion a template literal applies to a number
NumberToString(n) ==
    IF n.k # "num" THEN n.k
    ELSE LET a == IF n.v < 0 THEN -n.v ELSE n.v
             frac == stripTrailingZeros(padStart(NatToString(a % Unit), 3, "0"))
         IN  (IF n.v < 0 THEN "-" ELSE "")
             \o NatToString(a \div Unit)
             \o (IF frac = "" THEN "" ELSE "." \o frac)

(***************************************************************************)
(* JavaScript dates                                                        *)
(***************************************************************************)
IsLeapYear(y) == (y % 4 = 0 /\ y % 100 # 0) \/ y % 400 = 0

DaysInMonth(y, m) ==
    IF m = 2 THEN (IF IsLeapYear(y) THEN 29 ELSE 28)
    ELSE IF m \in {4, 6, 9, 11} THEN 30 ELSE 31

RECURSIVE DaysBeforeMonth(_, _)
DaysBeforeMonth(y, m) ==
    IF m <= 1 THEN 0 ELSE DaysBeforeMonth(y, m - 1) + DaysInMonth(y, m - 1)

DaysBeforeYear(y) ==
    365 * y + ((y - 1) \div 4) - ((y - 1) \div 100) + ((y - 1) \div 400)

\* new Date(year, monthIndex, day) as a count of local days: a month index past
\* 11 carries into the year, a day past the month's end carries into the next
\* months, and a year of 0..99 means 1900 + year.
DateFromParts(year, monthIndex, day) ==
    LET y0 == IF year >= 0 /\ year <= 99 THEN 1900 + year ELSE year
        y == y0 + (monthIndex \div 12)
        m == (monthIndex % 12) + 1
    IN  DaysBeforeYear(y) + DaysBeforeMonth(y, m) + day - 1

InvalidDate == [y |-> 0, m |-> 0, valid |-> FALSE, d |-> 0]
CivilDate(y, m, d) == [y |-> y, m |-> m, valid |-> TRUE, d |-> d]

IsCalendarDate(y, m, d) ==
    /\ y >= 1
    /\ m \in 1..12
    /\ d >= 1
    /\ d <= DaysInMonth(y, m)

NextDay(c) ==
    IF c.d < DaysInMonth(c.y, c.m) THEN CivilDate(c.y, c.m, c.d + 1)
    ELSE IF c.m < 12 THEN CivilDate(c.y, c.m + 1, 1)
    ELSE CivilDate(c.y + 1, 1, 1)

PrevDay(c) ==
    IF c.d > 1 THEN CivilDate(c.y, c.m, c.d - 1)
    ELSE IF c.m > 1 THEN CivilDate(c.y, c.m - 1, DaysInMonth(c.y, c.m - 1))
    ELSE CivilDate(c.y - 1, 12, 31)

\* the engine's date parser accepts any day of 1..31 and carries the days past
\* the month's end into the next month ("31 Feb 2021" is 3 March 2021)
IsParsableDay(y, m, d) == y >= 1 /\ m \in 1..12 /\ d \in 1..31

CarryDay(y, m, d) ==
    IF d <= DaysInMonth(y, m) THEN CivilDate(y, m, d)
    ELSE IF m < 12 THEN CivilDate(y, m + 1, d - DaysInMonth(y, m))
    ELSE CivilDate(y + 1, 1, d - DaysInMonth(y, m))

\* the local calendar day of the UTC instant (c, hh:..) in a zone tz hours east of UTC
LocalDay(c, hh, tz) ==
    IF hh + tz >= 24 THEN NextDay(c)
    ELSE IF hh + tz < 0 THEN PrevDay(c)
    ELSE c

MonthNames ==
    <<"jan", "feb", "mar", "apr", "may", "jun",
      "jul", "aug", "sep", "oct", "nov", "dec">>

\* the month a name stands for (its first three letters decide), 0 when none
MonthOfName(w) ==
    LET p == toLowerCase(substring(w, 1, 3))
    IN  IF \E i \in 1..12 : MonthNames[i] = p
        THEN CHOOSE i \in 1..12 : MonthNames[i] = p
        ELSE 0

AllDigits(s) == Len(s) > 0 /\ digitRun(s, 1) = Len(s)

\* new Date(string), ISO form: YYYY-MM-DD is UTC midnight, YYYY-MM-DDTHH:MM...
\* is UTC with a trailing Z and local time without one.
DateParseISO(s, tz) ==
    LET y == digitsValue(s, 1, 4)
        m == digitsValue(s, 6, 2)
        d == digitsValue(s, 9, 2)
        hasTime == Len(s) >= 16 /\ Ch(s, 11) = "T"
        hh == IF hasTime THEN digitsValue(s, 12, 2) ELSE 0
        utc == ~hasTime \/ Ch(s, Len(s)) = "Z"
        wellFormed ==
            /\ Len(s) >= 10
            /\ AllDigits(substring(s, 1, 4)) /\ Ch(s, 5) = "-"
            /\ AllDigits(substring(s, 6, 7)) /\ Ch(s, 8) = "-"
            /\ AllDigits(substring(s, 9, 10))
            /\ (Len(s) = 10 \/
                (/\ hasTime
                 /\ AllDigits(substring(s, 12, 13)) /\ Ch(s, 14) = ":"
                 /\ AllDigits(substring(s, 15, 16))))
    IN  IF wellFormed /\ IsParsableDay(y, m, d) /\ hh <= 23
        THEN (IF utc THEN LocalDay(CarryDay(y, m, d), hh, tz) ELSE CarryDay(y, m, d))
        ELSE InvalidDate

\* new Date(string), legacy forms: "D Mon YYYY" and "M/D/YYYY", both local time
DateParseLegacy(s) ==
    LET w == split(s, " ")
        p == split(s, "/")
    IN  IF Len(w) = 3 /\ AllDigits(w[1]) /\ AllDigits(w[3]) /\ MonthOfName(w[2]) # 0
        THEN LET y == digitsValue(w[3], 1, Len(w[3]))
                 m == MonthOfName(w[2])
                 d == digitsValue(w[1], 1, Len(w[1]))
             IN  IF Len(w[2]) >= 3 /\ Len(w[3]) = 4 /\ IsParsableDay(y, m, d)
                 THEN CarryDay(y, m, d) ELSE InvalidDate
        ELSE IF Len(p) = 3 /\ AllDigits(p[1]) /\ AllDigits(p[2]) /\ AllDigits(p[3])
        THEN LET y == digitsValue(p[3], 1, Len(p[3]))
                 m == digitsValue(p[1], 1, Len(p[1]))
                 d == digitsValue(p[2], 1, Len(p[2]))
             IN  IF Len(p[3]) = 4 /\ IsParsableDay(y, m, d)
                 THEN CarryDay(y, m, d) ELSE InvalidDate
        ELSE InvalidDate

\* new Date(string), legacy forms with a clock: an optional day name, then
\* "D Mon YYYY" or "Mon D, YYYY", with or without the comma, then an optional time of day, AM or PM, and a
\* zone (GMT, UTC, Z or +HHMM).  Without a zone the time is local time.  Any
\* other word makes the date invalid.
DayNames == <<"sun", "mon", "tue", "wed", "thu", "fri", "sat">>

IsDayName(w) ==
    Len(w) >= 3 /\ \E i \in 1..7 : DayNames[i] = toLowerCase(substring(w, 1, 3))

Words(s) == SelectSeq(split(s, " "), LAMBDA w : w # "")

IsTimeOfDay(w) ==
    LET p == split(w, ":")
    IN  /\ Len(p) \in {2, 3}
        /\ \A i \in 1..Len(p) : AllDigits(p[i]) /\ Len(p[i]) <= 2
        /\ digitsValue(p[1], 1, Len(p[1])) <= 23
        /\ \A i \in 2..Len(p) : digitsValue(p[i], 1, Len(p[i])) <= 59

HourOf(w) == digitsValue(split(w, ":")[1], 1, Len(split(w, ":")[1]))

IsMeridiem(w) == toLowerCase(w) \in {"am", "pm"}

Hour24(hh, meridiem) == (hh % 12) + (IF toLowerCase(meridiem) = "pm" THEN 12 ELSE 0)

IsZone(w) ==
    \/ toLowerCase(w) \in {"gmt", "utc", "z"}
    \/ Len(w) = 5 /\ Ch(w, 1) \in {"+", "-"} /\ AllDigits(substring(w, 2, 5))

ZoneHours(w) ==
    IF Len(w) = 5 /\ Ch(w, 1) = "+" THEN digitsValue(w, 2, 2)
    ELSE IF Len(w) = 5 /\ Ch(w, 1) = "-" THEN 0 - digitsValue(w, 2, 2)
    ELSE 0

DateParseClock_zone(date, hh, zone, tz) ==
    IF IsZone(zone) THEN LocalDay(date, hh - ZoneHours(zone), tz) ELSE InvalidDate

\* hh:mm[:ss], then AM or PM, then a zone; meridiem says that AM or PM is there
DateParseClock_at(date, rest, hh, meridiem, tz) ==
    IF Len(rest) > 3 \/ (meridiem /\ hh > 12) \/ (Len(rest) = 3 /\ ~meridiem)
    THEN InvalidDate
    ELSE IF Len(rest) = 1 \/ (Len(rest) = 2 /\ meridiem) THEN date
    ELSE DateParseClock_zone(date, IF meridiem THEN Hour24(hh, rest[2]) ELSE hh,
                             rest[Len(rest)], tz)

DateParseClock(date, rest, tz) ==
    IF ~date.valid \/ Len(rest) = 0 THEN date
    ELSE IF ~IsTimeOfDay(rest[1]) THEN InvalidDate
    ELSE DateParseClock_at(date, rest, HourOf(rest[1]),
                           Len(rest) >= 2 /\ IsMeridiem(rest[2]), tz)

DateParseDay(y, m, d) == IF IsParsableDay(y, m, d) THEN CarryDay(y, m, d) ELSE InvalidDate

DateParseHead_from(y, monthWord, dayWord) ==
    IF Len(dayWord) >= 1 /\ AllDigits(dayWord) /\ Len(monthWord) >= 3
       /\ MonthOfName(monthWord) # 0
    THEN DateParseDay(y, MonthOfName(monthWord), digitsValue(dayWord, 1, Len(dayWord)))
    ELSE InvalidDate

\* "D Mon YYYY" or "Mon D, YYYY", with or without the comma
DateParseHead(w) ==
    IF Len(w) < 3 \/ ~AllDigits(w[3]) \/ Len(w[3]) # 4 THEN InvalidDate
    ELSE DateParseHead_from(digitsValue(w[3], 1, 4),
             IF AllDigits(w[1]) THEN w[2] ELSE w[1],
             IF AllDigits(w[1]) THEN w[1]
             ELSE IF Len(w[2]) >= 2 /\ Ch(w[2], Len(w[2])) = ","
             THEN substring(w[2], 1, Len(w[2]) - 1)
             ELSE w[2])

DateParseWords(w, tz) == DateParseClock(DateParseHead(w), SubSeq(w, 4, Len(w)), tz)

DateParseTimed(w, tz) ==
    DateParseWords(IF Len(w) >= 1 /\ IsDayName(w[1]) THEN Tail(w) ELSE w, tz)

DateParse_legacy(s, legacy, tz) ==
    IF legacy.valid THEN legacy ELSE DateParseTimed(Words(s), tz)

DateParse_trimmed(s, tz) ==
    IF Len(s) >= 10 /\ Ch(s, 5) = "-" THEN DateParseISO(s, tz)
    ELSE DateParse_legacy(s, DateParseLegacy(s), tz)

DateParse(str, tz) == DateParse_trimmed(trim(str), tz)

\* String(date.getDate()).padStart(2,'0') / month / getFullYear(); the getters of
\* an invalid date are NaN, and String(NaN).padStart(2,'0') is "NaN".
FormatDateParts(date) ==
    IF date.valid
    THEN padStart(NatToString(date.d), 2, "0") \o "/"
         \o padStart(NatToString(date.m), 2, "0") \o "/"
         \o NatToString(date.y)
    ELSE "NaN/NaN/NaN"

(***************************************************************************)
(* What a parser does with one input unit: a record, null (the unit is     *)
(* skipped) or a thrown Error.                                             *)
(***************************************************************************)
NoRecord == [kind |-> "none"]
Parsed(rec) == [rec |-> rec, t |-> "record", msg |-> ""]
Null == [rec |-> NoRecord, t |-> "null", msg |-> ""]
Throw(msg) == [rec |-> NoRecord, t |-> "throw", msg |-> msg]

Trade(kind, date, asset, amount, price, expenses) ==
    [date |-> date, kind |-> kind, asset |-> asset,
     amount |-> amount, price |-> price, expenses |-> expenses]

Distribution(kind, date, asset, amount, value) ==
    [date |-> date, kind |-> kind, asset |-> asset, amount |-> amount, value |-> value]

Add(a, b) ==
    IF a.k = "num" /\ b.k = "num" THEN Num(a.v + b.v)
    ELSE IF a.k = "NaN" \/ b.k = "NaN" THEN NaN
    ELSE IF a.k = "num" THEN b
    ELSE IF b.k = "num" \/ a.k = b.k THEN a
    ELSE NaN

CurrencySymbols == {"£", "$", "€", ","}

(***************************************************************************)
(* Interactive Investor parser (ii.js)                                     *)
(***************************************************************************)
IIParser_parsePrice(priceStr) ==
    IF priceStr = "" \/ priceStr = "n/a" THEN Num(0)
    ELSE OrZero(parseFloat(removeChars(priceStr, CurrencySymbols)))

IIParser_parseAmount(amountStr) ==
    IF amountStr = "" \/ amountStr = "n/a" THEN Num(0)
    ELSE OrZero(parseFloat(removeChars(amountStr, CurrencySymbols)))

IIParser_calculateExpenses(row) == Num(0)

IIParser_formatDate(dateString) ==
    IF dateString = "" THEN ""
    ELSE LET parts == split(dateString, "/")
         IN  IF Len(parts) = 3
             THEN padStart(parts[1], 2, "0") \o "/" \o padStart(parts[2], 2, "0")
                  \o "/" \o parts[3]
             ELSE dateString

IIParser_parseTrade(kind, row, dateField) ==
    LET date == IIParser_formatDate(dateField)
        asset == trim(IF row.Sedol # "" THEN row.Sedol ELSE row.Symbol)
        amount == Math_abs(parseFloat(row.Quantity))
        price == IIParser_parsePrice(row.Price)
    IN  IF date = "" THEN Throw("Invalid or missing date")
        ELSE IF asset = "" THEN Throw("Missing asset identifier")
        ELSE IF ~isFinite(amount) \/ IsZero(amount) THEN Throw("Invalid Quantity")
        ELSE IF ~isFinite(price) \/ ~IsPositive(price) THEN Throw("Invalid price")
        ELSE Parsed(Trade(kind, date, asset, amount, price, IIParser_calculateExpenses(row)))

IIParser_parseBuyTransaction(row, dateField) == IIParser_parseTrade("BUY", row, dateField)

IIParser_parseSellTransaction(row, dateField) == IIParser_parseTrade("SELL", row, dateField)

IIParser_isNonTransaction(description) ==
    \/ includes(description, "total monthly fee")
    \/ includes(description, "fee transfer")
    \/ includes(description, "debit card payment")
    \/ includes(description, "cash received")
    \/ includes(description, "trf from")

IIParser_parseRow(row) ==
    LET dateField == row.Date
        description == toLowerCase(row.Description)
        quantityRaw == row.Quantity
        quantity == parseFloat(quantityRaw)
        debit == IIParser_parseAmount(row.Debit)
        credit == IIParser_parseAmount(row.Credit)
    IN  IF quantityRaw = "" \/ toLowerCase(quantityRaw) = "n/a" THEN Null
        ELSE IF IIParser_isNonTransaction(description) \/ IsZero(quantity) THEN Null
        ELSE IF ~isFinite(quantity) THEN Throw("Invalid Quantity")
        ELSE IF IsPositive(quantity) /\ IsPositive(debit)
             THEN IIParser_parseBuyTransaction(row, dateField)
        ELSE IF IsNegative(quantity) /\ IsPositive(credit)
             THEN IIParser_parseSellTransaction(row, dateField)
        ELSE Null

TradeLine(t) ==
    t.kind \o " " \o t.date \o " " \o t.asset \o " " \o NumberToString(t.amount)
    \o " " \o NumberToString(t.price) \o " " \o NumberToString(t.expenses)

DistributionLine(t) ==
    t.kind \o " " \o t.date \o " " \o t.asset \o " " \o NumberToString(t.amount)
    \o " " \o NumberToString(t.value)

\* formatTransaction: [t |-> "line", line] or [t |-> "throw"]
Line(l) == [t |-> "line", line |-> l]
FormatThrow == [t |-> "throw", line |-> ""]

IIParser_formatTransaction(transaction) ==
    IF transaction.kind \in {"BUY", "SELL"} THEN Line(TradeLine(transaction))
    ELSE Line("")

(***************************************************************************)
(* Freetrade parser (freetrade.js)                                         *)
(***************************************************************************)
FreetradeParser_formatDate(dateString, tz) ==
    IF dateString = "" THEN ""
    ELSE FormatDateParts(DateParse(dateString, tz))

FreetradeParser_calculateExpenses(row) ==
    Add(OrZero(parseFloat(row.Stamp_Duty)), OrZero(parseFloat(row.FX_Fee_Amount)))

FreetradeParser_asset(row) == trim(IF row.ISIN # "" THEN row.ISIN ELSE row.Ticker)

FreetradeParser_parseTransaction(row, tz) ==
    LET buySell == toLowerCase(row.Buy_Sell)
        kind == IF buySell = "buy" THEN "BUY" ELSE "SELL"
        date == FreetradeParser_formatDate(row.Timestamp, tz)
        asset == FreetradeParser_asset(row)
        amount == parseFloat(row.Quantity)
        price == parseFloat(row.Price_per_Share)
    IN  IF date = "" THEN Throw("Invalid or missing Timestamp")
        ELSE IF asset = "" THEN Throw("Missing asset identifier")
        ELSE IF ~isFinite(amount) \/ IsZero(amount) THEN Throw("Invalid Quantity")
        ELSE IF ~isFinite(price) \/ ~IsPositive(price) THEN Throw("Invalid Price per Share")
        ELSE Parsed(Trade(kind, date, asset, amount, price,
                          FreetradeParser_calculateExpenses(row)))

FreetradeParser_parseDividend(row, tz) ==
    LET dateRaw == IF row.Dividend_Pay_Date # "" THEN row.Dividend_Pay_Date
                   ELSE row.Dividend_Ex_Date
        date == FreetradeParser_formatDate(dateRaw, tz)
        asset == FreetradeParser_asset(row)
        amountRaw == row.Dividend_Eligible_Quantity
        valueRaw == row.Dividend_Net_Distribution_Amount
        amount == parseFloat(amountRaw)
        value == parseFloat(valueRaw)
    IN  IF date = "" THEN Throw("Invalid or missing dividend date")
        ELSE IF asset = "" THEN Throw("Missing asset identifier")
        ELSE IF amountRaw = "" \/ valueRaw = "" THEN Null
        ELSE IF ~isFinite(amount) \/ IsZero(amount) THEN Null
        ELSE IF ~isFinite(value) THEN Null
        ELSE Parsed(Distribution("DIVIDEND", date, asset, amount, value))

FreetradeParser_parseCapitalReturn(row, tz) ==
    LET date == FreetradeParser_formatDate(row.Timestamp, tz)
        asset == FreetradeParser_asset(row)
        amount == parseFloat(row.Quantity)
        value == parseFloat(row.Total_Amount)
    IN  IF date = "" THEN Throw("Invalid or missing Timestamp for capital return")
        ELSE IF asset = "" THEN Throw("Missing asset identifier")
        ELSE IF ~isFinite(amount) THEN Throw("Invalid Quantity for capital return")
        ELSE IF ~isFinite(value) THEN Throw("Invalid Total Amount for capital return")
        ELSE Parsed(Distribution("CAPRETURN", date, asset, amount, value))

FreetradeParser_parseRow(row, tz) ==
    LET type == toLowerCase(row.Type)
        buySell == toLowerCase(row.Buy_Sell)
    IN  IF type = "order" /\ buySell \in {"buy", "sell"}
        THEN FreetradeParser_parseTransaction(row, tz)
        ELSE IF type \in {"dividend", "special_dividend"}
        THEN FreetradeParser_parseDividend(row, tz)
        ELSE IF type \in {"capital", "capital return"}
        THEN FreetradeParser_parseCapitalReturn(row, tz)
        ELSE Null

FreetradeParser_formatTransaction(transaction) ==
    IF transaction.kind \in {"BUY", "SELL"} THEN Line(TradeLine(transaction))
    ELSE IF transaction.kind \in {"DIVIDEND", "CAPRETURN"}
    THEN Line(DistributionLine(transaction))
    ELSE IF transaction.kind \in {"SPLIT", "UNSPLIT"}
    THEN Line(transaction.kind \o " " \o transaction.date \o " " \o transaction.asset
              \o " " \o NumberToString(transaction.multiplier))
    ELSE Line("")

(***************************************************************************)
(* Fidelity parser (fidelity.js): asset identifier and date, shared by the *)
(* two revisions the file holds                                            *)
(***************************************************************************)
RECURSIVE whiteSpaceRun(_, _)
whiteSpaceRun(s, i) ==
    IF i <= Len(s) /\ IsWhiteSpace(Ch(s, i)) THEN 1 + whiteSpaceRun(s, i + 1) ELSE 0

RECURSIVE nonCommaRun(_, _)
nonCommaRun(s, i) ==
    IF i <= Len(s) /\ Ch(s, i) # "," THEN 1 + nonCommaRun(s, i + 1) ELSE 0

\* s.replace(/\s+/g, r)
RECURSIVE replaceWhiteSpaceRuns(_, _)
replaceWhiteSpaceRuns(s, r) ==
    IF Len(s) = 0 THEN ""
    ELSE IF IsWhiteSpace(Ch(s, 1))
         THEN r \o replaceWhiteSpaceRuns(SubSeq(s, 1 + whiteSpaceRun(s, 1), Len(s)), r)
         ELSE Ch(s, 1) \o replaceWhiteSpaceRuns(SubSeq(s, 2, Len(s)), r)

\* s.match(/<family>\s+([^,]+)/) at position i: the white space is taken greedily
\* and gives one character back when nothing else is left for the group
FamilyMatchesAt(s, family, i) ==
    LET j == i + Len(family)
        w == whiteSpaceRun(s, j)
    IN  /\ substring(s, i, j - 1) = family
        /\ w >= 1
        /\ (nonCommaRun(s, j + w) >= 1 \/ w >= 2)

FamilyGroupAt(s, family, i) ==
    LET j == i + Len(family)
        w == whiteSpaceRun(s, j)
        n == nonCommaRun(s, j + w)
    IN  IF n >= 1 THEN substring(s, j + w, j + w + n - 1)
        ELSE Ch(s, j + w - 1)

FamilyMatch(s, family) == \E i \in 1..Len(s) : FamilyMatchesAt(s, family, i)

FamilyGroup(s, family) ==
    LET i == CHOOSE i \in 1..Len(s) :
                 /\ FamilyMatchesAt(s, family, i)
                 /\ \A h \in 1..(i - 1) : ~FamilyMatchesAt(s, family, h)
    IN  FamilyGroupAt(s, family, i)

WordCharacters ==
    UpperCaseLetters \o LowerCaseLetters \o Digits \o "_"

IsWordCharacter(c) == \E i \in 1..Len(WordCharacters) : Ch(WordCharacters, i) = c

RECURSIVE keepWordCharacters(_)
keepWordCharacters(s) ==
    IF Len(s) = 0 THEN ""
    ELSE (IF IsWordCharacter(Ch(s, 1)) THEN Ch(s, 1) ELSE "")
         \o keepWordCharacters(SubSeq(s, 2, Len(s)))

FundFamilies == <<"Vanguard", "iShares", "Baillie Gifford">>

RECURSIVE assetFromFamilies(_, _)
assetFromFamilies(investment, k) ==
    IF k > Len(FundFamilies)
    THEN LET words == split(investment, " ")
         IN  keepWordCharacters(
                 join(SubSeq(words, 1, IF Len(words) < 3 THEN Len(words) ELSE 3), "_"))
    ELSE IF FamilyMatch(investment, FundFamilies[k])
    THEN replaceWhiteSpaceRuns(trim(FamilyGroup(investment, FundFamilies[k])), "_")
    ELSE assetFromFamilies(investment, k + 1)

FidelityParser_getAssetIdentifier(row) == assetFromFamilies(row.Investments, 1)

\* second revision: no guard for an empty string, the raw string comes back
\* when the date does not parse
FidelityParser_formatDate(dateString, tz) ==
    LET date == DateParse(dateString, tz)
    IN  IF ~date.valid THEN dateString ELSE FormatDateParts(date)

\* first revision
FidelityParserV1_formatDate(dateString, tz) ==
    IF dateString = "" THEN "" ELSE FidelityParser_formatDate(dateString, tz)

(***************************************************************************)
(* Fidelity parser, first revision (fidelity.js lines 8-257)               *)
(***************************************************************************)
FidelityParserV1_calculateExpenses(row) == Num(0)

FidelityParserV1_parseBuyTransaction(row, tz) ==
    Parsed(Trade("BUY",
                 FidelityParserV1_formatDate(row.Completion_date, tz),
                 FidelityParser_getAssetIdentifier(row),
                 Math_abs(OrZero(parseFloat(row.Quantity))),
                 OrZero(parseFloat(row.Price_per_unit)),
                 FidelityParserV1_calculateExpenses(row)))

FidelityParserV1_parseSellTransaction(row, tz) ==
    Parsed(Trade("SELL",
                 FidelityParserV1_formatDate(row.Completion_date, tz),
                 FidelityParser_getAssetIdentifier(row),
                 Math_abs(OrZero(parseFloat(row.Quantity))),
                 Math_abs(OrZero(parseFloat(row.Price_per_unit))),
                 FidelityParserV1_calculateExpenses(row)))

FidelityParser_isNonTransaction(transactionType, investment) ==
    \/ includes(transactionType, "cash in")
    \/ includes(transactionType, "cash out")
    \/ includes(transactionType, "transfer out")
    \/ includes(transactionType, "transfer to cash")
    \/ includes(transactionType, "cash in fees")
    \/ includes(transactionType, "cash out for buy")
    \/ includes(transactionType, "cash in from sell")
    \/ toLowerCase(investment) = "cash"

FidelityParserV1_parseRow(row, tz) ==
    LET transactionType == toLowerCase(row.Transaction_type)
        amount == OrZero(parseFloat(row.Amount))
        quantity == OrZero(parseFloat(row.Quantity))
    IN  IF \/ FidelityParser_isNonTransaction(transactionType, row.Investments)
           \/ includes(transactionType, "auto-sell for fees")
           \/ IsZero(quantity)
        THEN Null
        ELSE IF IsPositive(amount) /\ IsPositive(quantity)
        THEN FidelityParserV1_parseBuyTransaction(row, tz)
        ELSE IF IsNegative(amount) /\ IsNegative(quantity)
        THEN FidelityParserV1_parseSellTransaction(row, tz)
        ELSE Null

(***************************************************************************)
(* Fidelity parser, second revision (fidelity.js lines 265-519)            *)
(***************************************************************************)
FidelityParser_parseBuyTransaction(row, tz) ==
    LET date == FidelityParser_formatDate(row.Completion_date, tz)
        asset == FidelityParser_getAssetIdentifier(row)
        qty == parseFloat(row.Quantity)
        price == parseFloat(row.Price_per_unit)
    IN  IF date = "" THEN Throw("Invalid or missing Completion date")
        ELSE IF asset = "" THEN Throw("Invalid or missing Investments field")
        ELSE IF ~isFinite(qty) \/ ~IsPositive(qty) THEN Throw("Invalid Quantity for BUY")
        ELSE IF ~isFinite(price) \/ ~IsPositive(price)
             THEN Throw("Invalid Price per unit for BUY")
        ELSE Parsed(Trade("BUY", date, asset, Math_abs(qty), price, Num(0)))

\* this revision of the class defines no calculateExpenses, so the call made
\* once every field of a SELL has been validated throws a TypeError
FidelityParser_parseSellTransaction(row, tz) ==
    LET date == FidelityParser_formatDate(row.Completion_date, tz)
        asset == FidelityParser_getAssetIdentifier(row)
        qty == parseFloat(row.Quantity)
        price == parseFloat(row.Price_per_unit)
    IN  IF date = "" THEN Throw("Invalid or missing Completion date")
        ELSE IF asset = "" THEN Throw("Invalid or missing Investments field")
        ELSE IF ~isFinite(qty) \/ ~IsNegative(qty)
             THEN Throw("Invalid Quantity for SELL (expected negative)")
        ELSE IF ~isFinite(price) \/ ~IsPositive(price)
             THEN Throw("Invalid Price per unit for SELL")
        ELSE Throw("TypeError: this.calculateExpenses is not a function")

FidelityParser_parseRow(row, tz) ==
    LET transactionType == toLowerCase(row.Transaction_type)
        quantity == parseFloat(row.Quantity)
    IN  IF FidelityParser_isNonTransaction(transactionType, row.Investments) THEN Null
        ELSE IF ~isFinite(quantity) THEN Throw("Invalid Quantity")
        ELSE IF IsZero(quantity) THEN Null
        ELSE IF IsPositive(quantity) THEN FidelityParser_parseBuyTransaction(row, tz)
        ELSE FidelityParser_parseSellTransaction(row, tz)

FidelityParser_formatTransaction(transaction) ==
    IF transaction.kind \in {"BUY", "SELL"} THEN Line(TradeLine(transaction))
    ELSE Line("")

(***************************************************************************)
(* Fidelity parser, revision of src/unnamed/part_002                       *)
(***************************************************************************)
supportedTransactionTypes ==
    {"buy", "sell", "auto-sell for fees", "buy for switch", "sell for switch",
     "buy from regular savings plan", "cash out/sell for transfer"}

\* the record of this revision carries the signed quantity in a field named
\* quantity, which formatTransaction prints in the amount position
FidelityParser002_parseTransaction(row, tz) ==
    LET amount == parseFloat(row.Amount)
        date == DateParse(row.Completion_date, tz)
        asset == replaceWhiteSpaceRuns(row.Investments, "_")
        quantity == parseFloat(row.Quantity)
        price == parseFloat(row.Price_per_unit)
    IN  IF ~isFinite(amount) THEN Throw("Invalid Amount")
        ELSE IF IsZero(amount) THEN Throw("Zero Amount is not a valid transaction")
        ELSE IF ~date.valid THEN Throw("Invalid date format")
        ELSE IF asset = "" THEN Throw("Invalid or missing Investments field")
        ELSE IF ~isFinite(quantity) THEN Throw("Invalid Quantity")
        ELSE IF IsZero(quantity) THEN Throw("Zero Quantity is not a valid transaction")
        ELSE IF ~isFinite(price) \/ ~IsPositive(price) THEN Throw("Invalid Price per unit")
        ELSE Parsed(Trade(IF IsPositive(amount) THEN "BUY" ELSE "SELL",
                          FormatDateParts(date), asset, quantity, price, Num(0)))

FidelityParser002_parseRow(row, tz) ==
    IF toLowerCase(row.Transaction_type) \notin supportedTransactionTypes THEN Null
    ELSE FidelityParser002_parseTransaction(row, tz)

FidelityParser002_formatTransaction(transaction) ==
    IF transaction.kind \in {"BUY", "SELL"} THEN Line(TradeLine(transaction))
    ELSE FormatThrow

(***************************************************************************)
(* BullionVault email parser: text helpers.  An email is far longer than a *)
(* CSV cell, so these work by position and build strings by halving.       *)
(***************************************************************************)
\* the concatenation of pieces[lo], ..., pieces[hi]
RECURSIVE concat(_, _, _)
concat(pieces, lo, hi) ==
    IF lo > hi THEN ""
    ELSE IF lo = hi THEN pieces[lo]
    ELSE concat(pieces, lo, (lo + hi) \div 2)
         \o concat(pieces, ((lo + hi) \div 2) + 1, hi)

DigitSet == {"0", "1", "2", "3", "4", "5", "6", "7", "8", "9"}
WhiteSpaceSet == {" ", "\t", "\n", "\r"}
LineTerminators == {"\n", "\r"}
LetterSet == {Ch(UpperCaseLetters, i) : i \in 1..26} \cup {Ch(LowerCaseLetters, i) : i \in 1..26}

\* a literal of a regular expression with the i flag, given in lower case
matchesAt(s, i, lit) ==
    /\ i >= 1
    /\ i + Len(lit) - 1 <= Len(s)
    /\ (Ch(s, i) = Ch(lit, 1) \/ (Ch(s, i) \in LetterSet /\ LowerCh(Ch(s, i)) = Ch(lit, 1)))
    /\ toLowerCase(SubSeq(s, i, i + Len(lit) - 1)) = lit

\* [class]* and [^class]* from position i: the number of characters taken
runOf(s, i, class) ==
    IF i < 1 \/ i > Len(s) THEN 0
    ELSE (CHOOSE j \in i..(Len(s) + 1) :
             /\ (j > Len(s) \/ Ch(s, j) \notin class)
             /\ \A k \in i..(j - 1) : Ch(s, k) \in class) - i

runNotOf(s, i, class) ==
    IF i < 1 \/ i > Len(s) THEN 0
    ELSE (CHOOSE j \in i..(Len(s) + 1) :
             /\ (j > Len(s) \/ Ch(s, j) \in class)
             /\ \A k \in i..(j - 1) : Ch(s, k) \notin class) - i

\* the least element of a non-empty set of positions
First(positions) == CHOOSE p \in positions : \A q \in positions : p <= q

\* s.replace(/lit/gi, rep) for a literal that cannot overlap itself
replaceAll_piece(s, lit, rep, i) ==
    IF matchesAt(s, i, lit) THEN rep
    ELSE IF \E j \in (i - Len(lit) + 1)..(i - 1) : matchesAt(s, j, lit) THEN ""
    ELSE Ch(s, i)

replaceAll(s, lit, rep) ==
    concat([i \in 1..Len(s) |-> replaceAll_piece(s, lit, rep, i)], 1, Len(s))

\* String.fromCharCode for the code units 0x20..0x7E, tab, line feed and carriage
\* return; "?" stands for every other code unit and for the grave accent (0x60)
PrintableASCII ==
    " !\"#$%&'()*+,-./0123456789:;<=>?@ABCDEFGHIJKLMNOPQRSTUVWXYZ[\\]^_?abcdefghijklmnopqrstuvwxyz{|}~"

fromCharCode(code) ==
    IF code >= 32 /\ code <= 126 THEN Ch(PrintableASCII, code - 31)
    ELSE IF code = 9 THEN "\t"
    ELSE IF code = 10 THEN "\n"
    ELSE IF code = 13 THEN "\r"
    ELSE "?"

HexDigits == "0123456789abcdef"
IsHexDigit(c) == \E i \in 1..16 : Ch(HexDigits, i) = LowerCh(c)
HexVal(c) == (CHOOSE i \in 1..16 : Ch(HexDigits, i) = LowerCh(c)) - 1

\* str.replace(/=\r?\n/g, ''): the soft line breaks
softBreak_piece(s, i) ==
    LET c == Ch(s, i)
        next == substring(s, i + 1, i + 1)
        next2 == substring(s, i + 1, i + 2)
        prev == substring(s, i - 1, i - 1)
        prev2 == substring(s, i - 2, i - 1)
    IN  IF c = "=" /\ (next = "\n" \/ next2 = "\r\n") THEN ""
        ELSE IF c = "\r" /\ prev = "=" /\ next = "\n" THEN ""
        ELSE IF c = "\n" /\ (prev = "=" \/ (i >= 3 /\ prev2 = "=\r")) THEN ""
        ELSE c

\* out.replace(/=([0-9A-F]{2})/gi, ...): the hex escapes
IsHexEscape(s, i) ==
    /\ i >= 1 /\ i + 2 <= Len(s)
    /\ Ch(s, i) = "="
    /\ IsHexDigit(Ch(s, i + 1)) /\ IsHexDigit(Ch(s, i + 2))

hexEscape_piece(s, i) ==
    IF IsHexEscape(s, i) THEN fromCharCode(16 * HexVal(Ch(s, i + 1)) + HexVal(Ch(s, i + 2)))
    ELSE IF IsHexEscape(s, i - 1) \/ IsHexEscape(s, i - 2) THEN ""
    ELSE Ch(s, i)

decodeHexEscapes(s) == concat([i \in 1..Len(s) |-> hexEscape_piece(s, i)], 1, Len(s))

decodeQuotedPrintable(str) ==
    decodeHexEscapes(concat([i \in 1..Len(str) |-> softBreak_piece(str, i)], 1, Len(str)))

\* html.replace(/<[^>]*>/g, ''): a character is dropped when no ">" stands
\* between the last "<" up to it and itself, and a ">" follows
InTag(s, i) ==
    /\ \E j \in 1..i : Ch(s, j) = "<" /\ runNotOf(s, j, {">"}) >= i - j
    /\ \E k \in i..Len(s) : Ch(s, k) = ">"

removeTags(s) ==
    concat([i \in 1..Len(s) |-> IF InTag(s, i) THEN "" ELSE Ch(s, i)], 1, Len(s))

\* txt.replace(/\s+/g, ' ')
collapse_piece(s, i) ==
    IF ~IsWhiteSpace(Ch(s, i)) THEN Ch(s, i)
    ELSE IF i > 1 /\ IsWhiteSpace(Ch(s, i - 1)) THEN ""
    ELSE " "

collapseWhiteSpace(s) == concat([i \in 1..Len(s) |-> collapse_piece(s, i)], 1, Len(s))

\* trim() of a long string
trimLong(s) ==
    IF \A i \in 1..Len(s) : IsWhiteSpace(Ch(s, i)) THEN ""
    ELSE SubSeq(s, 1 + runOf(s, 1, WhiteSpaceSet),
                   CHOOSE p \in 1..Len(s) :
                       /\ ~IsWhiteSpace(Ch(s, p))
                       /\ \A q \in (p + 1)..Len(s) : IsWhiteSpace(Ch(s, q)))

stripHtml(html) ==
    trimLong(collapseWhiteSpace(
        replaceAll(replaceAll(replaceAll(replaceAll(removeTags(html),
            "&nbsp;", " "), "&amp;", "&"), "&lt;", "<"), "&gt;", ">")))

(***************************************************************************)
(* BullionVault email parser: the regular expressions.  A position of 0    *)
(* stands for a match that has failed.                                     *)
(***************************************************************************)
NumberChars == DigitSet \cup {","}
QuantityChars == DigitSet \cup {".", ","}

UpperCh(c) ==
    IF \E i \in 1..26 : Ch(LowerCaseLetters, i) = c
    THEN Ch(UpperCaseLetters, CHOOSE i \in 1..26 : Ch(LowerCaseLetters, i) = c)
    ELSE c

RECURSIVE toUpperCase(_)
toUpperCase(s) ==
    IF Len(s) = 0 THEN ""
    ELSE UpperCh(Ch(s, 1)) \o toUpperCase(SubSeq(s, 2, Len(s)))

parseNumber(str) == parseFloat(removeChars(str, {","}))

\* \s* and a literal from position p
skipSpace(s, p) == IF p = 0 THEN 0 ELSE p + runOf(s, p, WhiteSpaceSet)

literal(s, p, lit) == IF p # 0 /\ matchesAt(s, p, lit) THEN p + Len(lit) ELSE 0

\* the greatest element of a non-empty set of positions
Last(positions) == CHOOSE p \in positions : \A q \in positions : p >= q

\* [0-9,]+(?:\.[0-9]+)? at q: the number of characters it takes, 0 when it fails
amountLength_fraction(s, q, a) ==
    IF a = 0 THEN 0
    ELSE IF substring(s, q + a, q + a) = "." /\ runOf(s, q + a + 1, DigitSet) >= 1
    THEN a + 1 + runOf(s, q + a + 1, DigitSet)
    ELSE a

amountLength(s, q) ==
    IF q = 0 THEN 0 ELSE amountLength_fraction(s, q, runOf(s, q, NumberChars))

amountText(s, q) == substring(s, q, q + amountLength(s, q) - 1)

NoSummary == [kind |-> "", price |-> "", quantity |-> "", matched |-> FALSE]

SummaryMatch(kind, quantity, price) ==
    [kind |-> kind, price |-> price, quantity |-> quantity, matched |-> TRUE]

\* ([0-9,]+(?:\.[0-9]+)?)\s*\/kg at q
PerKgAt(s, q) ==
    /\ amountLength(s, q) >= 1
    /\ matchesAt(s, skipSpace(s, q + amountLength(s, q)), "/kg")

\* @[^/]*?(price)\s*\/kg: the lazy group stops at the first position, with no
\* slash before it, where the price and "/kg" match
Summary_priceAt(s, kind, quantity, starts) ==
    IF starts = {} THEN NoSummary
    ELSE SummaryMatch(kind, quantity, amountText(s, First(starts)))

Summary_price(s, kind, quantity, p) ==
    IF p = 0 THEN NoSummary
    ELSE Summary_priceAt(s, kind, quantity,
             {q \in p..(p + runNotOf(s, p, {"/"}) - 1) : PerKgAt(s, q)})

\* ([0-9.,]+)\s*kg\s*@
Summary_quantity(s, kind, p) ==
    IF runOf(s, p, QuantityChars) = 0 THEN NoSummary
    ELSE Summary_price(s, kind, substring(s, p, p + runOf(s, p, QuantityChars) - 1),
             literal(s, skipSpace(s,
                 literal(s, skipSpace(s, p + runOf(s, p, QuantityChars)), "kg")), "@"))

\* (Buy|Sell)\s*
Summary_kind(s, p) ==
    IF matchesAt(s, p, "buy") THEN Summary_quantity(s, "BUY", skipSpace(s, p + 3))
    ELSE IF matchesAt(s, p, "sell") THEN Summary_quantity(s, "SELL", skipSpace(s, p + 4))
    ELSE NoSummary

SummaryOrDealAt(s, i) ==
    IF matchesAt(s, i, "summary:") THEN Summary_kind(s, skipSpace(s, i + 8))
    ELSE IF matchesAt(s, i, "deal:") THEN Summary_kind(s, skipSpace(s, i + 5))
    ELSE NoSummary

SummaryOrDeal_first(s, starts) ==
    IF starts = {} THEN NoSummary ELSE SummaryOrDealAt(s, First(starts))

\* content.match(SUMMARY_OR_DEAL_RE): kind is group 1 in upper case
SUMMARY_OR_DEAL_RE(s) ==
    SummaryOrDeal_first(s, {i \in 1..Len(s) : SummaryOrDealAt(s, i).matched})

NoAmount == [matched |-> FALSE, currency |-> "", text |-> ""]

AmountMatch(currency, text) == [matched |-> TRUE, currency |-> currency, text |-> text]

\* (?:Security\{[^}]*\}\s*)? at p
skipSecurity(s, p) ==
    IF /\ matchesAt(s, p, "security{")
       /\ substring(s, p + 9 + runNotOf(s, p + 9, {"}"}),
                       p + 9 + runNotOf(s, p + 9, {"}"})) = "}"
    THEN skipSpace(s, p + 10 + runNotOf(s, p + 9, {"}"}))
    ELSE p

\* [A-Z]{3} at p (the expressions carry the i flag)
IsCurrencyAt(s, p) ==
    p >= 1 /\ p + 2 <= Len(s) /\ \A k \in p..(p + 2) : Ch(s, k) \in LetterSet

\* (?:([A-Z]{3})\s*)?([0-9,]+(?:\.[0-9]+)?) at p
CurrencyAmountAt(s, p) ==
    IF IsCurrencyAt(s, p) /\ amountLength(s, skipSpace(s, p + 3)) >= 1
    THEN AmountMatch(substring(s, p, p + 2), amountText(s, skipSpace(s, p + 3)))
    ELSE IF amountLength(s, p) >= 1 THEN AmountMatch("", amountText(s, p))
    ELSE NoAmount

LabelledAmountAt(s, i, label) ==
    IF matchesAt(s, i, label)
    THEN CurrencyAmountAt(s, skipSecurity(s, skipSpace(s, i + Len(label))))
    ELSE NoAmount

LabelledAmount_first(s, label, starts) ==
    IF starts = {} THEN NoAmount ELSE LabelledAmountAt(s, First(starts), label)

LabelledAmount(s, label) ==
    LabelledAmount_first(s, label,
        {i \in 1..Len(s) : LabelledAmountAt(s, i, label).matched})

\* "Net consideration:" ends in "Consideration:", and the groups are the same
CONSIDERATION_RE(s) == LabelledAmount(s, "consideration:")

COMMISSION_RE(s) == LabelledAmount(s, "commission:")

TOTAL_RE(s) == LabelledAmount(s, "total cost:")

NoCapture == [matched |-> FALSE, text |-> ""]

Capture(text) == [matched |-> TRUE, text |-> text]

\* \s*([^\r\n]+) at p: the white space gives back what the group needs
RestOfLine_from(s, starts) ==
    IF starts = {} THEN NoCapture
    ELSE Capture(substring(s, Last(starts),
                           Last(starts) + runNotOf(s, Last(starts), LineTerminators) - 1))

RestOfLineAt(s, p) ==
    RestOfLine_from(s, {k \in p..(p + runOf(s, p, WhiteSpaceSet)) :
                            runNotOf(s, k, LineTerminators) >= 1})

LineAfterLabel_first(s, label, starts) ==
    IF starts = {} THEN NoCapture ELSE RestOfLineAt(s, First(starts) + Len(label))

LineAfterLabel(s, label) ==
    LineAfterLabel_first(s, label,
        {i \in 1..Len(s) : matchesAt(s, i, label) /\ RestOfLineAt(s, i + Len(label)).matched})

DEALTIME_RE(s) == LineAfterLabel(s, "deal time:")

\* text.match(/Security:\s*([^\r\n]+)/i)
SecurityLine(s) == LineAfterLabel(s, "security:")

\* rawContent.match(/^Date:\s*(.+)$/m)
IsHeaderDateAt(s, i) ==
    /\ i + 4 <= Len(s)
    /\ SubSeq(s, i, i + 4) = "Date:"
    /\ (i = 1 \/ Ch(s, i - 1) \in LineTerminators)
    /\ RestOfLineAt(s, i + 5).matched

HeaderDate_first(s, starts) ==
    IF starts = {} THEN NoCapture ELSE RestOfLineAt(s, First(starts) + 5)

HeaderDate(s) == HeaderDate_first(s, {i \in 1..Len(s) : IsHeaderDateAt(s, i)})

\* \d{4}-\d{2}-\d{2}T\d{2}:\d{2}:\d{2} at i
IsIsoStampAt(s, i) ==
    /\ i + 18 <= Len(s)
    /\ \A k \in {0, 1, 2, 3, 5, 6, 8, 9, 11, 12, 14, 15, 17, 18} : Ch(s, i + k) \in DigitSet
    /\ Ch(s, i + 4) = "-" /\ Ch(s, i + 7) = "-"
    /\ Ch(s, i + 10) \in {"T", "t"}
    /\ Ch(s, i + 13) = ":" /\ Ch(s, i + 16) = ":"

\* (?:\s+at\s+[^G]+GMT)? at p: the position after it, p when it is not there
skipAtGMT_from(s, p, a) ==
    IF /\ a # 0
       /\ substring(s, a, a) \in WhiteSpaceSet
       /\ runNotOf(s, a + 1, {"G", "g"}) >= 1
       /\ matchesAt(s, a + 1 + runNotOf(s, a + 1, {"G", "g"}), "gmt")
    THEN a + 4 + runNotOf(s, a + 1, {"G", "g"})
    ELSE p

skipAtGMT(s, p) ==
    IF runOf(s, p, WhiteSpaceSet) >= 1
    THEN skipAtGMT_from(s, p, literal(s, skipSpace(s, p), "at"))
    ELSE p

\* [A-Za-z]+\s+\d{1,2},\s*\d{4}(?:\s+at\s+[^G]+GMT)? at i: the position after the
\* match, 0 when it fails
LongDate_year(s, p) ==
    IF p # 0 /\ runOf(s, p, DigitSet) >= 4 THEN skipAtGMT(s, p + 4) ELSE 0

LongDate_day(s, p) ==
    IF runOf(s, p, DigitSet) \in {1, 2}
    THEN LongDate_year(s, skipSpace(s, literal(s, p + runOf(s, p, DigitSet), ",")))
    ELSE 0

LongDateEnd(s, i) ==
    IF runOf(s, i, LetterSet) >= 1
       /\ runOf(s, i + runOf(s, i, LetterSet), WhiteSpaceSet) >= 1
    THEN LongDate_day(s, skipSpace(s, i + runOf(s, i, LetterSet)))
    ELSE 0

DatePartEnd(s, i) ==
    IF LongDateEnd(s, i) # 0 THEN LongDateEnd(s, i)
    ELSE IF IsIsoStampAt(s, i) THEN i + 19
    ELSE 0

DatePart_first(s, starts) ==
    IF starts = {} THEN NoCapture
    ELSE Capture(substring(s, First(starts), DatePartEnd(s, First(starts)) - 1))

\* dtRaw.match(/([A-Za-z]+\s+\d{1,2},\s*\d{4}(?:\s+at\s+[^G]+GMT)?|\d{4}-...)/i)
DatePart(s) == DatePart_first(s, {i \in 1..Len(s) : DatePartEnd(s, i) # 0})

\* dtPartMatch ? dtPartMatch[1] : dtRaw
dtForFormat_of(dtRaw, dtPartMatch) ==
    IF dtPartMatch.matched THEN dtPartMatch.text ELSE dtRaw

dtForFormat(dtRaw) == dtForFormat_of(dtRaw, DatePart(dtRaw))

(***************************************************************************)
(* BullionVault email parser: dates and asset                              *)
(***************************************************************************)
\* \bword\b at i, the word given in lower case
wordAt(s, i, word) ==
    /\ matchesAt(s, i, word)
    /\ (i = 1 \/ ~IsWordCharacter(Ch(s, i - 1)))
    /\ (i + Len(word) > Len(s) \/ ~IsWordCharacter(Ch(s, i + Len(word))))

\* s.replace(/\bword\b/gi, '')
removeWord(s, word) ==
    concat([i \in 1..Len(s) |->
               IF \E j \in (i - Len(word) + 1)..i : wordAt(s, j, word) THEN "" ELSE Ch(s, i)],
           1, Len(s))

hasWord(s, words) == \E i \in 1..Len(s) : \E w \in words : wordAt(s, i, w)

\* what formatDate gives: a string, null, or a thrown Error
DateValue(v) == [t |-> "value", value |-> v]
DateNull == [t |-> "null", value |-> ""]
DateThrow == [t |-> "throw", value |-> ""]

FullMonthNames ==
    <<"january", "february", "march", "april", "may", "june", "july", "august",
      "september", "october", "november", "december">>

IsMonthNameAt(s, p) == \E k \in 1..12 : matchesAt(s, p, FullMonthNames[k])

MonthNameAt(s, p) ==
    SubSeq(s, p, p + Len(FullMonthNames[CHOOSE k \in 1..12 :
                                            matchesAt(s, p, FullMonthNames[k])]) - 1)

\* (\d{1,2})\s+(January|...|December)\s+(\d{4}) at i
IsNamedDateAt(s, i) ==
    /\ runOf(s, i, DigitSet) \in {1, 2}
    /\ runOf(s, i + runOf(s, i, DigitSet), WhiteSpaceSet) >= 1
    /\ IsMonthNameAt(s, skipSpace(s, i + runOf(s, i, DigitSet)))
    /\ runOf(s, skipSpace(s, i + runOf(s, i, DigitSet))
                  + Len(MonthNameAt(s, skipSpace(s, i + runOf(s, i, DigitSet)))),
             WhiteSpaceSet) >= 1
    /\ runOf(s, skipSpace(s, skipSpace(s, i + runOf(s, i, DigitSet))
                  + Len(MonthNameAt(s, skipSpace(s, i + runOf(s, i, DigitSet))))),
             DigitSet) >= 4

\* String(new Date(`${monthName} 1, ${year}`).getMonth() + 1).padStart(2, '0')
monthNum(monthName, year, tz) ==
    IF DateParse(monthName \o " 1, " \o year, tz).valid
    THEN padStart(NatToString(DateParse(monthName \o " 1, " \o year, tz).m), 2, "0")
    ELSE "NaN"

NamedDate_parts(day, monthName, year, tz) ==
    padStart(day, 2, "0") \o "/" \o monthNum(monthName, year, tz) \o "/" \o year

NamedDate_month(s, day, p, tz) ==
    NamedDate_parts(day, MonthNameAt(s, p),
                    SubSeq(s, skipSpace(s, p + Len(MonthNameAt(s, p))),
                              skipSpace(s, p + Len(MonthNameAt(s, p))) + 3), tz)

NamedDateAt(s, i, tz) ==
    NamedDate_month(s, SubSeq(s, i, i + runOf(s, i, DigitSet) - 1),
                    skipSpace(s, i + runOf(s, i, DigitSet)), tz)

NamedDate_first(s, starts, tz) ==
    IF starts = {} THEN "" ELSE NamedDateAt(s, First(starts), tz)

\* the date the fallback expression finds in cleanDate, "" when it does not match
NamedDate(s, tz) == NamedDate_first(s, {i \in 1..Len(s) : IsNamedDateAt(s, i)}, tz)

\* formatDate of src/unnamed/part_000 and part_001
formatDate000_parsed(cleanDate, date, tz) ==
    IF date.valid THEN DateValue(FormatDateParts(date))
    ELSE IF NamedDate(cleanDate, tz) # "" THEN DateValue(NamedDate(cleanDate, tz))
    ELSE DateThrow

formatDate000_clean(cleanDate, tz) ==
    formatDate000_parsed(cleanDate,
        DateParse(trim(removeWord(removeWord(removeWord(removeWord(cleanDate,
                      "at"), "gmt"), "utc"), "bst")), tz), tz)

formatDate000(dateString, tz) ==
    IF dateString = "" THEN DateThrow ELSE formatDate000_clean(trim(dateString), tz)

\* formatDate of bullionvault.js: null where the later revisions throw, and the
\* string goes to new Date as it is
BullionVaultParser_formatDate_parsed(cleanDate, date, tz) ==
    IF date.valid THEN DateValue(FormatDateParts(date))
    ELSE IF NamedDate(cleanDate, tz) # "" THEN DateValue(NamedDate(cleanDate, tz))
    ELSE DateNull

BullionVaultParser_formatDate_clean(cleanDate, tz) ==
    BullionVaultParser_formatDate_parsed(cleanDate, DateParse(cleanDate, tz), tz)

BullionVaultParser_formatDate(dateString, tz) ==
    IF dateString = "" THEN DateNull
    ELSE BullionVaultParser_formatDate_clean(trim(dateString), tz)

\* ASSET_MATCHERS: /\b(gold?)\b/i and /\b(silver?)\b/i
GoldWords == {"gol", "gold"}
SilverWords == {"silve", "silver"}

\* detectAsset: "" stands for the Error it throws
detectAsset_in(toCheck, text) ==
    IF hasWord(toCheck, GoldWords) THEN "GOLD"
    ELSE IF hasWord(toCheck, SilverWords) THEN "SILVER"
    ELSE IF hasWord(text, GoldWords) THEN "GOLD"
    ELSE IF hasWord(text, SilverWords) THEN "SILVER"
    ELSE ""

detectAsset_line(text, securityMatchLocal) ==
    detectAsset_in(IF securityMatchLocal.matched THEN securityMatchLocal.text ELSE text, text)

detectAsset(text) == detectAsset_line(text, SecurityLine(text))

(***************************************************************************)
(* BullionVault email parser, revision of src/unnamed/part_000             *)
(***************************************************************************)
\* null as a number: String(null) is "null" and isFinite(null) is isFinite(0)
NullNumber == [k |-> "null", v |-> 0]

ToNumber(n) == IF n.k = "null" THEN Num(0) ELSE n

\* match ? parseNumber(match[2]) : null
amountOrNull(match) == IF match.matched THEN parseNumber(match.text) ELSE NullNumber

\* a currency was captured and it is not GBP
IsForeign(match) ==
    match.matched /\ match.currency # "" /\ toUpperCase(match.currency) # "GBP"

BullionVaultParser000_dated(summaryOrDealMatch, commission, assetDetected, date) ==
    IF date.t = "throw" THEN Throw("Unparsable date string")
    ELSE IF date.t = "null" THEN Throw("No parsable date found")
    ELSE Parsed(Trade(summaryOrDealMatch.kind, date.value, assetDetected,
                      parseNumber(summaryOrDealMatch.quantity),
                      parseNumber(summaryOrDealMatch.price), commission))

BullionVaultParser000_headerDate(headerDateMatch, tz) ==
    IF headerDateMatch.matched THEN formatDate000(trim(headerDateMatch.text), tz)
    ELSE DateNull

\* formatDate gives a non-empty string or throws, so the Date header is read
\* only when there is no Deal time line
BullionVaultParser000_date(rawContent, dealTimeMatch, tz) ==
    IF dealTimeMatch.matched
    THEN formatDate000(trim(dtForFormat(trim(dealTimeMatch.text))), tz)
    ELSE BullionVaultParser000_headerDate(HeaderDate(rawContent), tz)

BullionVaultParser000_checked(rawContent, content, summaryOrDealMatch, commission, assetDetected, tz) ==
    IF assetDetected = "" THEN Throw("Unable to detect asset type (gold/silver)")
    ELSE IF \/ ~isFinite(parseNumber(summaryOrDealMatch.quantity))
            \/ IsZero(parseNumber(summaryOrDealMatch.quantity))
         THEN Throw("Invalid quantity parsed from email")
    ELSE IF \/ ~isFinite(parseNumber(summaryOrDealMatch.price))
            \/ ~IsPositive(parseNumber(summaryOrDealMatch.price))
         THEN Throw("Invalid price parsed from email")
    ELSE BullionVaultParser000_dated(summaryOrDealMatch, commission, assetDetected,
             BullionVaultParser000_date(rawContent, DEALTIME_RE(content), tz))

BullionVaultParser000_matched(rawContent, content, summaryOrDealMatch, considerationMatch, commissionMatch, totalMatch, tz) ==
    IF ~summaryOrDealMatch.matched
    THEN Throw("Unparseable BullionVault email: missing Summary/Deal line")
    ELSE IF IsForeign(considerationMatch) \/ IsForeign(commissionMatch)
            \/ IsForeign(totalMatch)
    THEN Throw("Unsupported currency")
    ELSE IF \/ ~isFinite(ToNumber(amountOrNull(commissionMatch)))
            \/ isNaN(amountOrNull(commissionMatch))
    THEN Throw("Missing or unparsable commission/expenses")
    ELSE BullionVaultParser000_checked(rawContent, content, summaryOrDealMatch,
             amountOrNull(commissionMatch), detectAsset(content), tz)

BullionVaultParser000_content(rawContent, content, tz) ==
    IF content = "" THEN Throw("stripHtml resulted in empty string")
    ELSE BullionVaultParser000_matched(rawContent, content, SUMMARY_OR_DEAL_RE(content),
             CONSIDERATION_RE(content), COMMISSION_RE(content), TOTAL_RE(content), tz)

BullionVaultParser000_parseEmailString(rawContent, tz) ==
    BullionVaultParser000_content(rawContent, stripHtml(decodeQuotedPrintable(rawContent)),
                                  tz)

BullionVaultParser000_formatTransaction(transaction) ==
    IF transaction.kind \in {"BUY", "SELL"} THEN Line(TradeLine(transaction))
    ELSE Line("")

(***************************************************************************)
(* BullionVault email parser, revision of src/unnamed/part_001: the text   *)
(* is matched as it comes, and a missing match is a TypeError              *)
(***************************************************************************)
\* ([A-Z]{3})(?:'})?\s([0-9,]+(?:\.[0-9]+)?) at p
CurrencyAmount001_from(s, p, q) ==
    IF substring(s, q, q) \in WhiteSpaceSet /\ amountLength(s, q + 1) >= 1
    THEN AmountMatch(substring(s, p, p + 2), amountText(s, q + 1))
    ELSE NoAmount

CurrencyAmount001At(s, p) ==
    IF ~IsCurrencyAt(s, p) THEN NoAmount
    ELSE CurrencyAmount001_from(s, p, IF matchesAt(s, p + 3, "'}") THEN p + 5 ELSE p + 3)

\* \s*(?:.*=')? at p: the greedy group ends at the last =' of the line after
\* which the rest matches
LabelledAmount001_prefixed(s, p, prefixes) ==
    IF prefixes # {} THEN CurrencyAmount001At(s, Last(prefixes) + 2)
    ELSE CurrencyAmount001At(s, p)

LabelledAmount001_from(s, p) ==
    LabelledAmount001_prefixed(s, p,
        {k \in p..(p + runNotOf(s, p, LineTerminators) - 1) :
            /\ substring(s, k, k + 1) = "='"
            /\ CurrencyAmount001At(s, k + 2).matched})

LabelledAmount001At(s, i, label) ==
    IF matchesAt(s, i, label) THEN LabelledAmount001_from(s, skipSpace(s, i + Len(label)))
    ELSE NoAmount

LabelledAmount001_first(s, label, starts) ==
    IF starts = {} THEN NoAmount ELSE LabelledAmount001At(s, First(starts), label)

LabelledAmount001(s, label) ==
    LabelledAmount001_first(s, label,
        {i \in 1..Len(s) : LabelledAmount001At(s, i, label).matched})

CONSIDERATION_RE_001(s) == LabelledAmount001(s, "consideration:")

COMMISSION_RE_001(s) == LabelledAmount001(s, "commission:")

BullionVaultParser001_date(dealTimeMatch, tz) ==
    IF dealTimeMatch.matched
    THEN formatDate000(trim(dtForFormat(trim(dealTimeMatch.text))), tz)
    ELSE DateNull

BullionVaultParser001_checked(content, summaryOrDealMatch, commission, assetDetected, tz) ==
    IF assetDetected = "" THEN Throw("Unable to detect asset type (gold/silver)")
    ELSE IF \/ ~isFinite(parseNumber(summaryOrDealMatch.quantity))
            \/ IsZero(parseNumber(summaryOrDealMatch.quantity))
         THEN Throw("Invalid quantity parsed from email")
    ELSE IF \/ ~isFinite(parseNumber(summaryOrDealMatch.price))
            \/ ~IsPositive(parseNumber(summaryOrDealMatch.price))
         THEN Throw("Invalid price parsed from email")
    ELSE BullionVaultParser000_dated(summaryOrDealMatch, commission, assetDetected,
             BullionVaultParser001_date(DEALTIME_RE(content), tz))

BullionVaultParser001_matched(content, summaryOrDealMatch, considerationMatch, commissionMatch, tz) ==
    IF ~summaryOrDealMatch.matched \/ ~considerationMatch.matched
       \/ ~commissionMatch.matched
    THEN Throw("TypeError: Cannot read properties of null")
    ELSE IF toUpperCase(considerationMatch.currency) # "GBP"
            \/ toUpperCase(commissionMatch.currency) # "GBP"
    THEN Throw("Unsupported currency")
    ELSE IF ~isFinite(parseNumber(commissionMatch.text))
    THEN Throw("Missing or unparsable commission/expenses")
    ELSE BullionVaultParser001_checked(content, summaryOrDealMatch,
             parseNumber(commissionMatch.text), detectAsset(content), tz)

BullionVaultParser001_parseEmailString(content, tz) ==
    BullionVaultParser001_matched(content, SUMMARY_OR_DEAL_RE(content),
        CONSIDERATION_RE_001(content), COMMISSION_RE_001(content), tz)

BullionVaultParser001_formatTransaction(transaction) ==
    IF transaction.kind \in {"BUY", "SELL"} THEN Line(TradeLine(transaction))
    ELSE FormatThrow

(***************************************************************************)
(* BullionVault email parser (bullionvault.js)                             *)
(***************************************************************************)
\* GBP\s*([0-9,]+(?:\.[0-9]+)?)[\/]?kg at p
SummaryGBP_price(s, kind, quantity, p) ==
    IF /\ amountLength(s, p) >= 1
       /\ \/ matchesAt(s, p + amountLength(s, p), "/kg")
          \/ matchesAt(s, p + amountLength(s, p), "kg")
    THEN SummaryMatch(kind, quantity, amountText(s, p))
    ELSE NoSummary

\* ([0-9,.]+)kg\s*@\s*GBP\s*
SummaryGBP_quantity(s, kind, p) ==
    IF runOf(s, p, QuantityChars) = 0 THEN NoSummary
    ELSE SummaryGBP_price(s, kind, substring(s, p, p + runOf(s, p, QuantityChars) - 1),
             skipSpace(s, literal(s, skipSpace(s, literal(s, skipSpace(s,
                 literal(s, p + runOf(s, p, QuantityChars), "kg")), "@")), "gbp")))

SummaryGBP_kind(s, p) ==
    IF matchesAt(s, p, "buy") THEN SummaryGBP_quantity(s, "BUY", skipSpace(s, p + 3))
    ELSE IF matchesAt(s, p, "sell") THEN SummaryGBP_quantity(s, "SELL", skipSpace(s, p + 4))
    ELSE NoSummary

SummaryGBPAt(s, i) ==
    IF matchesAt(s, i, "summary:") THEN SummaryGBP_kind(s, skipSpace(s, i + 8))
    ELSE NoSummary

SummaryGBP_first(s, starts) ==
    IF starts = {} THEN NoSummary ELSE SummaryGBPAt(s, First(starts))

\* content.match(/Summary:\s*(Buy|Sell)\s*([0-9,.]+)kg\s*@\s*GBP\s*(...)[\/]?kg/i)
SummaryGBP(s) == SummaryGBP_first(s, {i \in 1..Len(s) : SummaryGBPAt(s, i).matched})

\* content.match(/Commission:\s*GBP\s*([0-9,]+(?:\.[0-9]+)?)/i)
CommissionGBPAt(s, i) ==
    IF amountLength(s, skipSpace(s, literal(s, skipSpace(s, literal(s, i, "commission:")),
                                           "gbp"))) >= 1
    THEN AmountMatch("GBP", amountText(s, skipSpace(s, literal(s, skipSpace(s,
                                literal(s, i, "commission:")), "gbp"))))
    ELSE NoAmount

CommissionGBP_first(s, starts) ==
    IF starts = {} THEN NoAmount ELSE CommissionGBPAt(s, First(starts))

CommissionGBP(s) ==
    CommissionGBP_first(s, {i \in 1..Len(s) : CommissionGBPAt(s, i).matched})

BullionVaultParser_headerDate(headerDateMatch, tz) ==
    IF headerDateMatch.matched
    THEN BullionVaultParser_formatDate(trim(headerDateMatch.text), tz)
    ELSE DateNull

BullionVaultParser_dealDate(dealTimeMatch, tz) ==
    IF dealTimeMatch.matched
    THEN BullionVaultParser_formatDate(trim(dtForFormat(trim(dealTimeMatch.text))), tz)
    ELSE DateNull

\* the Date header is read when the Deal time line gave no date
BullionVaultParser_date(raw, dealDate, tz) ==
    IF dealDate.t = "value" THEN dealDate
    ELSE BullionVaultParser_headerDate(HeaderDate(raw), tz)

BullionVaultParser_matched(raw, content, summaryMatch, commissionMatch, tz) ==
    IF ~summaryMatch.matched THEN Null
    ELSE IF \/ ~isFinite(parseNumber(summaryMatch.quantity))
            \/ IsZero(parseNumber(summaryMatch.quantity))
         THEN Throw("Invalid quantity parsed from email")
    ELSE IF \/ ~isFinite(parseNumber(summaryMatch.price))
            \/ ~IsPositive(parseNumber(summaryMatch.price))
         THEN Throw("Invalid price parsed from email")
    ELSE BullionVaultParser000_dated(summaryMatch, amountOrNull(commissionMatch), "GOLD",
             BullionVaultParser_date(raw,
                 BullionVaultParser_dealDate(DEALTIME_RE(content), tz), tz))

BullionVaultParser_content(raw, content, tz) ==
    BullionVaultParser_matched(raw, content, SummaryGBP(content), CommissionGBP(content), tz)

BullionVaultParser_parseEmailFile(raw, tz) ==
    BullionVaultParser_content(raw, stripHtml(decodeQuotedPrintable(raw)), tz)

BullionVaultParser_formatTransaction(transaction) ==
    IF transaction.kind \in {"BUY", "SELL"} THEN Line(TradeLine(transaction))
    ELSE Line("")

(***************************************************************************)
(* An email as the lines it is made of; an absent line is the empty string *)
(***************************************************************************)
EmailLines(row) ==
    SelectSeq(<<row.summary, row.security, row.extra, row.consideration,
                row.commission, row.total, row.dealTime>>, LAMBDA l : l # "")

RECURSIVE EmailBody(_, _)
EmailBody(lines, wrap) ==
    IF Len(lines) = 0 THEN ""
    ELSE IF wrap = "html"
    THEN "<p>" \o lines[1] \o "</p>\n" \o EmailBody(Tail(lines), wrap)
    ELSE IF wrap = "soft"
    THEN substring(lines[1], 1, 10) \o "=\n" \o substring(lines[1], 11, Len(lines[1]))
         \o "\n" \o EmailBody(Tail(lines), wrap)
    ELSE lines[1] \o "\n" \o EmailBody(Tail(lines), wrap)

\* the text of the .eml file: the headers, an empty line, the body; an HTML
\* body is quoted-printable, with a soft line break after its first tag; a
\* "soft" body is quoted-printable text with a soft line break after the tenth
\* character of every line; a "markup" file holds tags and nothing else
EmailText(row) ==
    IF row.wrap = "markup" THEN "<html><body>\n</body></html>\n"
    ELSE
    (IF row.header = "" THEN "" ELSE row.header \o "\n")
    \o "Subject: Dealing advice\n\n"
    \o (IF row.wrap = "html" THEN "<html>=\n" ELSE "")
    \o EmailBody(EmailLines(row), row.wrap)

(***************************************************************************)
(* parseToFormat: the rows of one CSV file, in order; the first row that   *)
(* throws rejects the whole call.                                          *)
(***************************************************************************)
Parsers == {"ii", "freetrade", "fidelity_v1", "fidelity", "fidelity_002"}

parseRow(parser, row, tz) ==
    CASE parser = "ii" -> IIParser_parseRow(row)
      [] parser = "freetrade" -> FreetradeParser_parseRow(row, tz)
      [] parser = "fidelity_v1" -> FidelityParserV1_parseRow(row, tz)
      [] parser = "fidelity" -> FidelityParser_parseRow(row, tz)
      [] parser = "fidelity_002" -> FidelityParser002_parseRow(row, tz)

formatTransaction(parser, transaction) ==
    CASE parser = "ii" -> IIParser_formatTransaction(transaction)
      [] parser = "freetrade" -> FreetradeParser_formatTransaction(transaction)
      [] parser = "fidelity_v1" -> FidelityParser_formatTransaction(transaction)
      [] parser = "fidelity" -> FidelityParser_formatTransaction(transaction)
      [] parser = "fidelity_002" -> FidelityParser002_formatTransaction(transaction)
      [] parser = "bullionvault" -> BullionVaultParser_formatTransaction(transaction)
      [] parser = "bullionvault_000" -> BullionVaultParser000_formatTransaction(transaction)
      [] parser = "bullionvault_001" -> BullionVaultParser001_formatTransaction(transaction)

Resolved(lines) == [t |-> "resolved", lines |-> lines]
Rejected == [t |-> "rejected", lines |-> <<>>]

\* parseContent followed by transactions.map(formatTransaction); FreetradeParser
\* alone drops the empty strings (.filter(Boolean))
RECURSIVE parseToFormat(_, _, _)
parseToFormat_line(parser, line, rest) ==
    IF line.t = "throw" THEN Rejected
    ELSE IF parser = "freetrade" /\ line.line = "" THEN rest
    ELSE Resolved(<<line.line>> \o rest.lines)

parseToFormat_row(parser, first, rest) ==
    IF first.t = "throw" \/ rest.t = "rejected" THEN Rejected
    ELSE IF first.t = "null" THEN rest
    ELSE parseToFormat_line(parser, formatTransaction(parser, first.rec), rest)

parseToFormat(parser, rows, tz) ==
    IF Len(rows) = 0 THEN Resolved(<<>>)
    ELSE parseToFormat_row(parser, parseRow(parser, rows[1], tz),
                           parseToFormat(parser, Tail(rows), tz))

(***************************************************************************)
(* sortTransactionsChronologically (index.js, part_003, part_004, part_005)*)
(***************************************************************************)
MainRevisions == {"index.js", "part_003", "part_004"}

Order(n) == [throws |-> FALSE, order |-> n]
CompareThrows == [throws |-> TRUE, order |-> 0]

\* a comparator with its operands swapped
Sign_reversed(n) == IF n < 0 THEN 1 ELSE IF n > 0 THEN -1 ELSE 0

Sign(n) == IF n < 0 THEN -1 ELSE IF n > 0 THEN 1 ELSE 0

\* the second space-delimited field of a line; "" stands for undefined too
DateField(line) ==
    LET fields == split(line, " ")
    IN  IF Len(fields) >= 2 THEN fields[2] ELSE ""

\* dateA.split('/').map(s => parseInt(s, 10)), destructured into day, month, year
DayMonthYear(date) ==
    LET parts == split(date, "/")
    IN  [year |-> IF Len(parts) >= 3 THEN parseInt(parts[3]) ELSE NaN,
         day |-> parseInt(parts[1]),
         month |-> IF Len(parts) >= 2 THEN parseInt(parts[2]) ELSE NaN]

HasDayMonthYear(date) ==
    LET p == DayMonthYear(date)
    IN  date # "" /\ Truthy(p.day) /\ Truthy(p.month) /\ Truthy(p.year)

DateObject(date) ==
    LET p == DayMonthYear(date)
    IN  DateFromParts(p.year.v \div Unit, (p.month.v \div Unit) - 1, p.day.v \div Unit)

\* the comparator of index.js and part_004
compareFailFast(a, b) ==
    LET dateA == DateField(a)
        dateB == DateField(b)
    IN  IF dateA = "" \/ dateB = "" THEN CompareThrows
        ELSE IF ~HasDayMonthYear(dateA) \/ ~HasDayMonthYear(dateB) THEN CompareThrows
        ELSE Order(Sign(DateObject(dateA) - DateObject(dateB)))

\* the comparator of part_003: new Date(`${year}-${month.padStart(2,'0')}-${day.padStart(2,'0')}`)
IsoDateObject(date) ==
    LET parts == split(date, "/")
        year == IF Len(parts) >= 3 THEN parts[3] ELSE "undefined"
    IN  DateParse(year \o "-" \o padStart(parts[2], 2, "0") \o "-"
                  \o padStart(parts[1], 2, "0"), 0)

compareLenient(a, b) ==
    LET dateA == DateField(a)
        dateB == DateField(b)
    IN  IF dateA = "" \/ dateB = "" THEN Order(0)
        ELSE IF Len(split(dateA, "/")) < 2 \/ Len(split(dateB, "/")) < 2
        THEN CompareThrows      \* TypeError: month.padStart of undefined
        ELSE LET A == IsoDateObject(dateA)
                 B == IsoDateObject(dateB)
             IN  IF ~A.valid \/ ~B.valid THEN Order(0)      \* NaN counts as 0
                 ELSE Order(Sign(DateFromParts(A.y, A.m - 1, A.d)
                                 - DateFromParts(B.y, B.m - 1, B.d)))

compare(ver, a, b) ==
    IF ver \in {"part_003", "part_005"} THEN compareLenient(a, b)
    ELSE compareFailFast(a, b)

Sorted(seq) == [t |-> "sorted", lines |-> seq]
SortThrows == [t |-> "throw", lines |-> <<>>]

RECURSIVE Reverse(_)
Reverse(seq) == IF Len(seq) = 0 THEN <<>> ELSE Reverse(Tail(seq)) \o <<seq[1]>>

\* Array.prototype.sort of the engine, for arrays shorter than 64: the initial
\* run is found (and reversed when strictly descending), then every later
\* element is placed by binary insertion.  ExtendRun is the length of the run,
\* or 0 once the comparator has thrown.
RECURSIVE ExtendRun(_, _, _, _)
ExtendRun_compared(ver, arr, idx, descending, c) ==
    IF c.throws THEN 0
    ELSE IF descending /\ c.order >= 0 THEN idx - 1
    ELSE IF ~descending /\ c.order < 0 THEN idx - 1
    ELSE ExtendRun(ver, arr, idx + 1, descending)

ExtendRun(ver, arr, idx, descending) ==
    IF idx > Len(arr) THEN idx - 1
    ELSE ExtendRun_compared(ver, arr, idx, descending,
                            compare(ver, arr[idx], arr[idx - 1]))

\* position (0-based) at which pivot goes into arr[left+1 .. right], -1 on a throw
RECURSIVE BinarySearch(_, _, _, _, _)
\* a search that places the pivot before the elements it is equal to
BinarySearch_beforeEqual(ver, arr, pivot, left, mid, right, c) ==
    IF c.throws THEN -1
    ELSE IF c.order <= 0 THEN BinarySearch(ver, arr, pivot, left, mid)
    ELSE BinarySearch(ver, arr, pivot, mid + 1, right)

BinarySearch_compared(ver, arr, pivot, left, mid, right, c) ==
    IF c.throws THEN -1
    ELSE IF c.order < 0 THEN BinarySearch(ver, arr, pivot, left, mid)
    ELSE BinarySearch(ver, arr, pivot, mid + 1, right)

BinarySearch(ver, arr, pivot, left, right) ==
    IF left >= right THEN left
    ELSE BinarySearch_compared(ver, arr, pivot, left, left + ((right - left) \div 2),
             right, compare(ver, pivot, arr[left + ((right - left) \div 2) + 1]))

RECURSIVE BinaryInsertionSort(_, _, _)
BinaryInsertionSort_insert(ver, arr, start, at) ==
    IF at < 0 THEN SortThrows
    ELSE BinaryInsertionSort(ver,
             SubSeq(arr, 1, at) \o <<arr[start]>> \o SubSeq(arr, at + 1, start - 1)
             \o SubSeq(arr, start + 1, Len(arr)),
             start + 1)

BinaryInsertionSort(ver, arr, start) ==
    IF start > Len(arr) THEN Sorted(arr)
    ELSE BinaryInsertionSort_insert(ver, arr, start,
             BinarySearch(ver, arr, arr[start], 0, start - 1))

sort_fromRun(ver, transactions, descending, runLength) ==
    IF runLength = 0 THEN SortThrows
    ELSE BinaryInsertionSort(ver,
             IF descending
             THEN Reverse(SubSeq(transactions, 1, runLength))
                  \o SubSeq(transactions, runLength + 1, Len(transactions))
             ELSE transactions,
             runLength + 1)

sort_compared(ver, transactions, first) ==
    IF first.throws THEN SortThrows
    ELSE sort_fromRun(ver, transactions, first.order < 0,
                      ExtendRun(ver, transactions, 3, first.order < 0))

sortTransactionsChronologically(ver, transactions) ==
    IF Len(transactions) < 2 THEN Sorted(transactions)
    ELSE sort_compared(ver, transactions,
                       compare(ver, transactions[2], transactions[1]))

(***************************************************************************)
(* main(): the merge of the parser's lines into data.txt                   *)
(***************************************************************************)
NoFile == [content |-> "", exists |-> FALSE]
File(content) == [content |-> content, exists |-> TRUE]

RECURSIVE SelectNonBlank(_)
SelectNonBlank(lines) ==
    IF Len(lines) = 0 THEN <<>>
    ELSE (IF trim(lines[1]) # "" THEN <<lines[1]>> ELSE <<>>)
         \o SelectNonBlank(Tail(lines))

RECURSIVE TrimEach(_)
TrimEach(lines) ==
    IF Len(lines) = 0 THEN <<>> ELSE <<trim(lines[1])>> \o TrimEach(Tail(lines))

\* existingTransactions: index.js and part_003 trim the content, split it and
\* drop the blank lines; part_004 splits, trims every line and drops the empty ones
readExisting(ver, file) ==
    IF ~file.exists THEN <<>>
    ELSE IF ver = "part_004"
    THEN SelectNonBlank(TrimEach(split(file.content, "\n")))
    ELSE SelectNonBlank(split(trim(file.content), "\n"))

\* a merge that forgets to deduplicate
Distinct_keepAll(lines, seen) == lines

\* Array.from(new Set(...)): the first occurrence of every value, in order
RECURSIVE Distinct(_, _)
Distinct(lines, seen) ==
    IF Len(lines) = 0 THEN <<>>
    ELSE IF lines[1] \in seen THEN Distinct(Tail(lines), seen)
    ELSE <<lines[1]>> \o Distinct(Tail(lines), seen \cup {lines[1]})

\* a merge that adds the lines to the set as they are
TrimNonEmpty_asIs(lines) == lines

\* for (const line of ...) { if (!line) continue; seen.add(line.trim()); }
RECURSIVE TrimNonEmpty(_)
TrimNonEmpty(lines) ==
    IF Len(lines) = 0 THEN <<>>
    ELSE (IF lines[1] # "" THEN <<trim(lines[1])>> ELSE <<>>)
         \o TrimNonEmpty(Tail(lines))

merge(ver, existing, new) ==
    IF ver = "index.js" THEN Distinct(TrimNonEmpty(existing) \o TrimNonEmpty(new), {})
    ELSE IF ver = "part_004" THEN Distinct(existing \o new, {})
    ELSE existing \o new

\* the second half of main(): read data.txt, merge, sort, and only then write
Written(file, sorted) == [t |-> "written", lines |-> sorted, file |-> file]
Unwritten(file) == [t |-> "throw", lines |-> <<>>, file |-> file]

\* a main() that writes whatever the sort left before it reports the failure
main_write_always(file, sortedTransactions) ==
    [t |-> sortedTransactions.t, lines |-> sortedTransactions.lines,
     file |-> File(join(sortedTransactions.lines, "\n") \o "\n")]

main_write(file, sortedTransactions) ==
    IF sortedTransactions.t = "throw" THEN Unwritten(file)
    ELSE Written(File(join(sortedTransactions.lines, "\n") \o "\n"),
                 sortedTransactions.lines)

main_mergeAndWrite(ver, file, new) ==
    main_write(file, sortTransactionsChronologically(ver,
                         merge(ver, readExisting(ver, file), new)))

Types == {"ii", "freetrade", "fidelity"}

main_parse(type, parser, path, rows, tz) ==
    IF path # "exists" THEN Rejected
    ELSE IF type \notin Types THEN Rejected
    ELSE parseToFormat(parser, rows, tz)

(***************************************************************************)
(* Input rows.  A row is what csv-parse hands to parseRow: the columns the *)
(* parser reads, as trimmed strings ("" for an empty cell).                *)
(***************************************************************************)
IIRow(date, sedol, quantity, price, description, debit, credit) ==
    [Sedol |-> sedol, Symbol |-> "", Quantity |-> quantity, Price |-> price,
     Date |-> date, Description |-> description, Debit |-> debit, Credit |-> credit]

FreetradeRow(type, buySell, timestamp, quantity, price, totalAmount, payDate, eligible, net) ==
    [Quantity |-> quantity, Stamp_Duty |-> "0.5", FX_Fee_Amount |-> "",
     ISIN |-> "GB00B3X7QG63", Ticker |-> "VWRL", Buy_Sell |-> buySell,
     Timestamp |-> timestamp, Price_per_Share |-> price, Dividend_Pay_Date |-> payDate,
     Dividend_Ex_Date |-> "", Dividend_Eligible_Quantity |-> eligible,
     Dividend_Net_Distribution_Amount |-> net, Total_Amount |-> totalAmount,
     Type |-> type]

FreetradeOrder(buySell, timestamp, quantity, price) ==
    FreetradeRow("ORDER", buySell, timestamp, quantity, price, "", "", "", "")

FidelityRow(completion, type, investments, amount, quantity, price) ==
    [Quantity |-> quantity, Investments |-> investments,
     Completion_date |-> completion, Price_per_unit |-> price, Transaction_type |-> type,
     Amount |-> amount, Order_date |-> completion]

\* the CSV files the pipeline specification feeds to main(), as row sequences
PipelineInputs(parser) ==
    IF parser = "ii"
    THEN {<<IIRow("1/1/2020", "B3X7QG6", "-4", "3", "Sell", "", "12")>>,
          <<IIRow("03/03/2020", "B3X7QG6", "10", "£2.5", "Buy", "£25.00", ""),
            IIRow("03/03/2020", "B3X7QG6", "10", "0", "Buy", "£25.00", "")>>}
    ELSE IF parser = "freetrade"
    THEN {<<FreetradeRow("TOP_UP", "", "2021-06-15T10:00:00.000Z", "", "", "100",
                         "", "", ""),
            FreetradeOrder("BUY", "2021-06-15T10:00:00.000Z", "10", "50")>>,
          <<FreetradeOrder("SELL", "garbage", "1", "50")>>}
    ELSE {<<FidelityRow("15 Jun 2021", "Sell", "Vanguard FTSE Global All Cap",
                        "-100", "-2", "50"),
            FidelityRow("03 Mar 2020", "Buy", "Vanguard FTSE Global All Cap",
                        "500", "10", "50")>>}

\* what data.txt may hold before the first run: nothing, lines of an earlier run
\* (out of order, with a CRLF line end and a blank line), or a line without a date
InitialFiles ==
    {NoFile,
     File("BUY 15/06/2021 GB00B3X7QG63 10 50 0.50\r\n\nSELL 01/01/2020 B3X7QG6 4 3 0\n"),
     File("BUY 15/06/2021 GB00B3X7QG63 10 50 0.5\r\nSELL 01/01/2020 B3X7QG6 4 3 0\r\n"),
     File("CORRUPT\n")}

MaxRuns == 2

ParsersOf(type) ==
    IF type = "fidelity" THEN {"fidelity_v1", "fidelity", "fidelity_002"} ELSE {type}

NoRun == [tz |-> 0, type |-> "", parser |-> "", rows |-> <<>>, path |-> ""]
NoUnit == [tz |-> 0, row |-> <<>>, parser |-> ""]

\* the outcome of a row parser: what parseRow did and the line formatTransaction
\* made of its record
Pending == [rec |-> NoRecord, t |-> "pending", msg |-> ""]
NoLine == [t |-> "none", line |-> ""]
NoOutcome == [line |-> NoLine, parsed |-> Pending]

(***************************************************************************)
(* The pipeline: runs of main() against one data.txt                       *)
(***************************************************************************)
Init ==
    /\ version \in MainRevisions
    /\ dataTxt \in InitialFiles
    /\ pc = "idle"
    /\ run = NoRun
    /\ results = <<>>
    /\ runs = 0
    /\ unit = NoUnit
    /\ outcome = NoOutcome

Idle == pc \in {"idle", "done", "usage_error", "parse_error", "sort_error"}

\* main() with an unknown type or a path that does not exist: it throws before
\* any parser is called
Main_Usage(type, path) ==
    /\ Idle
    /\ runs < MaxRuns
    /\ main_parse(type, type, path, <<>>, 0).t = "rejected"
    /\ run' = [tz |-> 0, type |-> type, parser |-> "", rows |-> <<>>, path |-> path]
    /\ runs' = runs + 1
    /\ pc' = "usage_error"
    /\ results' = <<>>
    /\ UNCHANGED <<version, dataTxt, unit, outcome>>

\* main() up to the end of `await parser.parseToFormat(...)`
Main_Parsed(parsed) ==
    /\ pc' = IF parsed.t = "rejected" THEN "parse_error" ELSE "parsed"
    /\ results' = parsed.lines

Main_Parse(type, parser, rows) ==
    /\ Idle
    /\ runs < MaxRuns
    /\ Main_Parsed(main_parse(type, parser, "exists", rows, 0))
    /\ run' = [tz |-> 0, type |-> type, parser |-> parser, rows |-> rows,
               path |-> "exists"]
    /\ runs' = runs + 1
    /\ UNCHANGED <<version, dataTxt, unit, outcome>>

\* the rest of main(): read data.txt, merge, sort, write
Main_Written(out) ==
    /\ dataTxt' = out.file
    /\ pc' = IF out.t = "throw" THEN "sort_error" ELSE "done"

Main_Merge ==
    /\ pc = "parsed"
    /\ Main_Written(main_mergeAndWrite(version, dataTxt, results))
    /\ UNCHANGED <<version, run, results, runs, unit, outcome>>

Next ==
    \/ \E type \in {"ii", "gold"}, path \in {"exists", "absent"} :
           Main_Usage(type, path)
    \/ \E type \in Types : \E parser \in ParsersOf(type) :
           \E rows \in PipelineInputs(parser) : Main_Parse(type, parser, rows)
    \/ Main_Merge

Spec == Init /\ [][Next]_vars

(***************************************************************************)
(* The row parsers applied to one input unit each                          *)
(***************************************************************************)
TimeZones == {-5, 0, 1}

IIUnits ==
    {[tz |-> 0, row |-> IIRow("03/03/2020", "B3X7QG6", quantity, price, description, debit, credit),
      parser |-> "ii"] :
        quantity \in {"10", "-4", "0", "abc", ""},
        price \in {"£2.5", "0", "-1", ""},
        description \in {"Buy", "Total monthly fee"},
        debit \in {"£25.00", ""},
        credit \in {"12", ""}}

FreetradeUnits ==
    {[tz |-> tz, row |-> FreetradeRow(type, buySell, timestamp, quantity, price, "",
                           "2021-06-15", "10", "1.5"),
      parser |-> "freetrade"] :
        type \in {"ORDER", "DIVIDEND"},
        buySell \in {"BUY", "SELL"},
        timestamp \in {"2021-06-15T23:30:00.000Z", "garbage"},
        quantity \in {"10", "-5", "0", "abc"},
        price \in {"50", "0", "-3", ""},
        tz \in TimeZones}

FidelityUnits ==
    {[tz |-> 0, row |-> FidelityRow("15 Oct 2021", type, "Vanguard FTSE Global All Cap",
                          amount, quantity, price),
      parser |-> parser] :
        parser \in {"fidelity_v1", "fidelity", "fidelity_002"},
        type \in {"Buy", "Sell", "Cash In"},
        amount \in {"500", "-500", "0"},
        quantity \in {"10", "-10", "0"},
        price \in {"50", "0", "abc"}}

\* II rows that differ in the way the date and the asset identifier are written
IIDateUnits ==
    {[tz |-> 0, row |-> IIRow(date, sedol, "10", "£2.5", "Buy", "£25.00", ""),
      parser |-> "ii"] :
        date \in {"3/3/2020", "2020-03-03", "31/02/2020", "3 Mar 2020", ""},
        sedol \in {"B3X7QG6", "B3X 7QG6"}}

\* rows the classifier takes for transactions, with a quantity that is not a number
InvalidFieldUnits ==
    {[tz |-> 0, row |-> FreetradeRow("DIVIDEND", "", "", "", "", "", "2021-06-15",
                                     eligible, net),
      parser |-> "freetrade"] :
        eligible \in {"10", "abc"}, net \in {"1.5", "abc"}}
    \cup {[tz |-> 0, row |-> FidelityRow("15 Oct 2021", "Buy",
                                "Vanguard FTSE Global All Cap", "500", "abc", "50"),
           parser |-> parser] :
             parser \in {"fidelity_v1", "fidelity", "fidelity_002"}}

\* Fidelity rows that differ in the fund name
FundNames ==
    {"Vanguard FTSE Global All Cap, Accumulation", "iShares Core  FTSE 100",
     "Fundsmith Equity I Acc", "L&G Global 100 Index", "!!!", ""}

FidelityNameUnits ==
    {[tz |-> 0, row |-> FidelityRow("15 Oct 2021", "Buy", name, "500", "10", "50"),
      parser |-> parser] :
        name \in FundNames, parser \in {"fidelity_v1", "fidelity", "fidelity_002"}}

\* rows with text that is not a number in a price, debit or fee column
InvalidNumberUnits ==
    {[tz |-> 0,
      row |-> [FreetradeOrder("BUY", "2021-06-15T10:00:00.000Z", "10", "50")
                   EXCEPT !.Stamp_Duty = stampDuty, !.FX_Fee_Amount = fxFee],
      parser |-> "freetrade"] :
        stampDuty \in {"0.5", "abc"}, fxFee \in {"", "£x"}}
    \cup {[tz |-> 0, row |-> IIRow("03/03/2020", "B3X7QG6", "10", price, "Buy", debit, ""),
           parser |-> "ii"] :
             price \in {"£2.5", "abc"}, debit \in {"£25.00", "abc"}}

Units ==
    IIUnits \cup IIDateUnits \cup FreetradeUnits \cup FidelityUnits \cup InvalidFieldUnits
    \cup FidelityNameUnits \cup InvalidNumberUnits

RowInit ==
    /\ version = "index.js"
    /\ dataTxt = NoFile
    /\ pc = "idle"
    /\ run = NoRun
    /\ results = <<>>
    /\ runs = 0
    /\ unit \in Units
    /\ outcome = NoOutcome

\* parseRow, then formatTransaction on the record when there is one
Emitted(parser, parsed) ==
    [line |-> IF parsed.t = "record" THEN formatTransaction(parser, parsed.rec)
              ELSE NoLine,
     parsed |-> parsed]

ParseUnit(parser, parsed) ==
    /\ outcome' = Emitted(parser, parsed)
    /\ UNCHANGED <<version, dataTxt, pc, run, results, runs, unit>>

II_parseRow ==
    /\ unit.parser = "ii" /\ outcome = NoOutcome
    /\ ParseUnit("ii", IIParser_parseRow(unit.row))

Freetrade_parseRow ==
    /\ unit.parser = "freetrade" /\ outcome = NoOutcome
    /\ ParseUnit("freetrade", FreetradeParser_parseRow(unit.row, unit.tz))

FidelityV1_parseRow ==
    /\ unit.parser = "fidelity_v1" /\ outcome = NoOutcome
    /\ ParseUnit("fidelity_v1", FidelityParserV1_parseRow(unit.row, unit.tz))

Fidelity_parseRow ==
    /\ unit.parser = "fidelity" /\ outcome = NoOutcome
    /\ ParseUnit("fidelity", FidelityParser_parseRow(unit.row, unit.tz))

Fidelity002_parseRow ==
    /\ unit.parser = "fidelity_002" /\ outcome = NoOutcome
    /\ ParseUnit("fidelity_002", FidelityParser002_parseRow(unit.row, unit.tz))

RowNext ==
    \/ II_parseRow
    \/ Freetrade_parseRow
    \/ FidelityV1_parseRow
    \/ Fidelity_parseRow
    \/ Fidelity002_parseRow

RowSpec == RowInit /\ [][RowNext]_vars

(***************************************************************************)
(* The email parsers applied to one email each                             *)
(***************************************************************************)
EmailParsers == {"bullionvault", "bullionvault_000", "bullionvault_001"}

Email(header, summary, security, extra, consideration, commission, total, dealTime, wrap) ==
    [commission |-> commission, summary |-> summary, security |-> security, extra |-> extra,
     consideration |-> consideration, total |-> total, dealTime |-> dealTime,
     wrap |-> wrap, header |-> header]

GoodEmail ==
    Email("Date: Fri, 15 Oct 2021 23:30:05 +0000", "Summary: Buy 2kg @ GBP 50/kg",
          "Security: Gold", "", "Consideration: GBP 100", "Commission: GBP 2.5",
          "Total cost: GBP 102.5", "Deal time: Oct 14, 2021 at 10:00:00 AM GMT", "plain")

EmailFields ==
    {"header", "summary", "security", "extra", "consideration", "commission", "total",
     "dealTime", "wrap"}

EmailPool ==
    {Email(header, summary, security, extra, consideration, commission, total, dealTime,
           wrap) :
        header \in {"Date: Fri, 15 Oct 2021 23:30:05 +0000", ""},
        summary \in {"Summary: Buy 2kg @ GBP 50/kg", "Summary: Sell 2kg @ USD 50/kg", ""},
        security \in {"Security: Gold", "Security: Silver", "Security: Platinum", ""},
        extra \in {"", "Vault: gold bars"},
        consideration \in {"Consideration: GBP 100", "Consideration: USD 100", ""},
        commission \in {"Commission: GBP 2.5", "Commission: USD 2.5", "Commission: n/a", ""},
        total \in {"Total cost: GBP 102.5", "Total cost: USD 102.5",
                   "Total received: USD 102.5", ""},
        dealTime \in {"Deal time: Oct 14, 2021 at 10:00:00 AM GMT", "Deal time: soon", ""},
        wrap \in {"plain", "html"}}

\* how far an email is from the well-formed one
MaxChanges == 2

Changes(row) == Cardinality({f \in EmailFields : row[f] # GoodEmail[f]})

EmailUnits ==
    {[tz |-> 0, row |-> row, parser |-> parser] :
        row \in {r \in EmailPool : Changes(r) <= MaxChanges}, parser \in EmailParsers}

\* the well-formed email and the email without a commission line, in the
\* encodings of the body, and the file of tags alone
EncodedUnits ==
    {[tz |-> 0, row |-> [row EXCEPT !.wrap = wrap], parser |-> parser] :
        row \in {GoodEmail, [GoodEmail EXCEPT !.commission = ""]},
        wrap \in {"soft", "markup"}, parser \in EmailParsers}

EmailInit ==
    /\ version = "index.js"
    /\ dataTxt = NoFile
    /\ pc = "idle"
    /\ run = NoRun
    /\ results = <<>>
    /\ runs = 0
    /\ unit \in EmailUnits \cup EncodedUnits
    /\ outcome = NoOutcome

BullionVault_parseEmailFile ==
    /\ unit.parser = "bullionvault" /\ outcome = NoOutcome
    /\ ParseUnit("bullionvault",
                 BullionVaultParser_parseEmailFile(EmailText(unit.row), unit.tz))

BullionVault000_parseEmailString ==
    /\ unit.parser = "bullionvault_000" /\ outcome = NoOutcome
    /\ ParseUnit("bullionvault_000",
                 BullionVaultParser000_parseEmailString(EmailText(unit.row), unit.tz))

BullionVault001_parseEmailString ==
    /\ unit.parser = "bullionvault_001" /\ outcome = NoOutcome
    /\ ParseUnit("bullionvault_001",
                 BullionVaultParser001_parseEmailString(EmailText(unit.row), unit.tz))

EmailNext ==
    \/ BullionVault_parseEmailFile
    \/ BullionVault000_parseEmailString
    \/ BullionVault001_parseEmailString

EmailSpec == EmailInit /\ [][EmailNext]_vars

(***************************************************************************)
(* The formatters applied to one record each, as parseToFormat applies     *)
(* them to the records it parsed                                           *)
(***************************************************************************)
KnownKinds == {"BUY", "SELL", "DIVIDEND", "CAPRETURN", "SPLIT", "UNSPLIT"}

FormatUnits ==
    {[tz |-> 0, row |-> Trade(kind, "15/10/2021", asset, Num(amount), Num(50 * Unit), Num(0)),
      parser |-> parser] :
        kind \in {"BUY", "SELL", "GIFT", "buy", ""},
        asset \in {"GOLD", "B3X7QG6"},
        amount \in {2 * Unit, 2500},
        parser \in Parsers \cup EmailParsers}

FormatInit ==
    /\ version = "index.js"
    /\ dataTxt = NoFile
    /\ pc = "idle"
    /\ run = NoRun
    /\ results = <<>>
    /\ runs = 0
    /\ unit \in FormatUnits
    /\ outcome = NoOutcome

\* transactions.map(formatTransaction) of parseToFormat, on the one record
Formatted(returned) ==
    /\ pc' = (IF returned.t = "rejected" THEN "rejected" ELSE "formatted")
    /\ results' = returned.lines

FormatUnit(parser) ==
    /\ outcome' = [line |-> formatTransaction(parser, unit.row), parsed |-> Parsed(unit.row)]
    /\ Formatted(parseToFormat_line(parser, formatTransaction(parser, unit.row),
                                    Resolved(<<>>)))
    /\ UNCHANGED <<version, dataTxt, run, runs, unit>>

II_formatTransaction ==
    /\ unit.parser = "ii" /\ outcome = NoOutcome
    /\ FormatUnit("ii")

Freetrade_formatTransaction ==
    /\ unit.parser = "freetrade" /\ outcome = NoOutcome
    /\ FormatUnit("freetrade")

Fidelity_formatTransaction ==
    /\ unit.parser \in {"fidelity_v1", "fidelity"} /\ outcome = NoOutcome
    /\ FormatUnit(unit.parser)

Fidelity002_formatTransaction ==
    /\ unit.parser = "fidelity_002" /\ outcome = NoOutcome
    /\ FormatUnit("fidelity_002")

BullionVault_formatTransaction ==
    /\ unit.parser = "bullionvault" /\ outcome = NoOutcome
    /\ FormatUnit("bullionvault")

BullionVault000_formatTransaction ==
    /\ unit.parser = "bullionvault_000" /\ outcome = NoOutcome
    /\ FormatUnit("bullionvault_000")

BullionVault001_formatTransaction ==
    /\ unit.parser = "bullionvault_001" /\ outcome = NoOutcome
    /\ FormatUnit("bullionvault_001")

FormatNext ==
    \/ II_formatTransaction
    \/ Freetrade_formatTransaction
    \/ Fidelity_formatTransaction
    \/ Fidelity002_formatTransaction
    \/ BullionVault_formatTransaction
    \/ BullionVault000_formatTransaction
    \/ BullionVault001_formatTransaction

FormatSpec == FormatInit /\ [][FormatNext]_vars

(***************************************************************************)
(* parseToFormat on a whole input: the rows of one CSV file, or the emails *)
(* of one batch                                                            *)
(***************************************************************************)
\* the starts of the occurrences of lit in s, from the left, none overlapping
RECURSIVE occurrences(_, _, _)
occurrences_from(s, lit, hits) ==
    IF hits = {} THEN <<>>
    ELSE <<First(hits)>> \o occurrences(s, lit, First(hits) + Len(lit))

occurrences(s, lit, from) ==
    occurrences_from(s, lit, {p \in from..(Len(s) - Len(lit) + 1) :
                                 SubSeq(s, p, p + Len(lit) - 1) = lit})

\* s.split(lit) for a separator of several characters
splitBy_at(s, lit, at) ==
    [k \in 1..(Len(at) + 1) |->
        substring(s, IF k = 1 THEN 1 ELSE at[k - 1] + Len(lit),
                     IF k > Len(at) THEN Len(s) ELSE at[k] - 1)]

splitBy(s, lit) == splitBy_at(s, lit, occurrences(s, lit, 1))

\* the rows a CSV batch is drawn from: two rows that give a record, a row the
\* classifier skips, a row that cannot be read
BatchRows(parser) ==
    IF parser = "ii"
    THEN <<IIRow("03/03/2020", "B3X7QG6", "10", "£2.5", "Buy", "£25.00", ""),
           IIRow("1/1/2020", "B3X7QG6", "-4", "3", "Sell", "", "12"),
           IIRow("03/03/2020", "", "", "", "Total monthly fee", "£9.99", ""),
           IIRow("03/03/2020", "B3X7QG6", "abc", "3", "Buy", "£25.00", "")>>
    ELSE IF parser = "freetrade"
    THEN <<FreetradeOrder("BUY", "2021-06-15T23:30:00.000Z", "10", "50"),
           FreetradeOrder("SELL", "2021-06-16T10:00:00.000Z", "1", "50"),
           FreetradeRow("TOP_UP", "", "2021-06-15T10:00:00.000Z", "", "", "100",
                        "", "", ""),
           FreetradeOrder("BUY", "2021-06-15T10:00:00.000Z", "abc", "50")>>
    ELSE <<FidelityRow("15 Jun 2021", "Sell", "Vanguard FTSE Global All Cap",
                       "-100", "-2", "50"),
           FidelityRow("03 Mar 2020", "Buy", "Vanguard FTSE Global All Cap",
                       "500", "10", "50"),
           FidelityRow("03 Mar 2020", "Cash In", "Cash", "500", "0", "0"),
           FidelityRow("03 Mar 2020", "Buy", "Vanguard FTSE Global All Cap",
                       "500", "abc", "50")>>

\* the emails a batch is drawn from: two of the same day, one without a summary
\* line, one without a deal time
BatchEmails ==
    <<GoodEmail,
      [GoodEmail EXCEPT !.security = "Security: Silver"],
      [GoodEmail EXCEPT !.summary = ""],
      [GoodEmail EXCEPT !.dealTime = ""]>>

\* the inputs of one or two units, and one of three: record, skip, record
Batches(pool) ==
    {<<pool[i]>> : i \in 1..Len(pool)}
    \cup {<<pool[i], pool[j]>> : i, j \in 1..Len(pool)}
    \cup {<<pool[1], pool[3], pool[2]>>}

BatchUnits ==
    {[tz |-> 0, row |-> rows, parser |-> "ii"] : rows \in Batches(BatchRows("ii"))}
    \cup {[tz |-> tz, row |-> rows, parser |-> "freetrade"] :
             rows \in Batches(BatchRows("freetrade")), tz \in TimeZones}
    \cup {[tz |-> 0, row |-> rows, parser |-> parser] :
             rows \in Batches(BatchRows("fidelity")),
             parser \in {"fidelity_v1", "fidelity", "fidelity_002"}}
    \cup {[tz |-> tz, row |-> rows, parser |-> parser] :
             rows \in Batches(BatchEmails),
             parser \in {"bullionvault_000", "bullionvault_001"}, tz \in {0, 1}}

BatchInit ==
    /\ version = "part_004"
    /\ dataTxt = NoFile
    /\ pc = "idle"
    /\ run = NoRun
    /\ results = <<>>
    /\ runs = 0
    /\ unit \in BatchUnits
    /\ outcome = <<>>

\* the promise parseToFormat returns settles
Batch_Return(returned) ==
    /\ pc' = returned.t
    /\ results' = returned.lines

II_parseToFormat ==
    /\ unit.parser = "ii" /\ pc = "idle"
    /\ Batch_Return(parseToFormat("ii", unit.row, unit.tz))
    /\ UNCHANGED <<version, dataTxt, run, runs, unit, outcome>>

Freetrade_parseToFormat ==
    /\ unit.parser = "freetrade" /\ pc = "idle"
    /\ Batch_Return(parseToFormat("freetrade", unit.row, unit.tz))
    /\ UNCHANGED <<version, dataTxt, run, runs, unit, outcome>>

Fidelity_parseToFormat ==
    /\ unit.parser \in {"fidelity_v1", "fidelity", "fidelity_002"} /\ pc = "idle"
    /\ Batch_Return(parseToFormat(unit.parser, unit.row, unit.tz))
    /\ UNCHANGED <<version, dataTxt, run, runs, unit, outcome>>

\* the file of a batch: the emails, "\nEOF\n" between them
RECURSIVE EmailTexts(_)
EmailTexts(rows) ==
    IF Len(rows) = 0 THEN <<>> ELSE <<EmailText(rows[1])>> \o EmailTexts(Tail(rows))

EmailBatchText(rows) == join(EmailTexts(rows), "\nEOF\n")

\* transactions.map(formatTransaction): the lines in the order of the transactions
RECURSIVE mapFormat(_, _)
mapFormat_line(line, rest) ==
    IF line.t = "throw" \/ rest.t = "rejected" THEN Rejected
    ELSE Resolved(<<line.line>> \o rest.lines)

mapFormat(parser, transactions) ==
    IF Len(transactions) = 0 THEN Resolved(<<>>)
    ELSE IF transactions[1].t = "null" THEN Rejected
    ELSE mapFormat_line(formatTransaction(parser, transactions[1].rec),
                        mapFormat(parser, Tail(transactions)))

Settled(promises) == {i \in 1..Len(promises) : promises[i].t # "pending"}
Thrown(promises) == {i \in 1..Len(promises) : promises[i].t = "throw"}

\* a Promise.all that hands the values over in the order the promises settled
PromiseAll_asSettled(promises, order) == [i \in 1..Len(order) |-> promises[order[i]]]

\* Promise.all: the values in the order of the promises
PromiseAll(promises, order) == promises

\* part_001 parseToFormat: split the file, start one parse for every email
BullionVault001_parseToFormat ==
    /\ unit.parser = "bullionvault_001" /\ pc = "idle"
    /\ pc' = "parsing"
    /\ outcome' = [i \in 1..Len(splitBy(EmailBatchText(unit.row), "\nEOF\n")) |-> Pending]
    /\ UNCHANGED <<version, dataTxt, run, results, runs, unit>>

\* one of the parses that were started settles
BullionVault001_settle(i) ==
    /\ unit.parser = "bullionvault_001" /\ pc = "parsing"
    /\ outcome[i] = Pending
    /\ outcome' = [outcome EXCEPT ![i] =
           BullionVaultParser001_parseEmailString(
               splitBy(EmailBatchText(unit.row), "\nEOF\n")[i], unit.tz)]
    /\ run' = [run EXCEPT !.rows = Append(@, i)]
    /\ UNCHANGED <<version, dataTxt, pc, results, runs, unit>>

\* the continuation of `await Promise.all(...)`: it throws as soon as one parse
\* has thrown, and formats the transactions once every parse has returned
BullionVault001_PromiseAll ==
    /\ unit.parser = "bullionvault_001" /\ pc = "parsing"
    /\ \/ /\ Thrown(outcome) # {}
          /\ Batch_Return(Rejected)
       \/ /\ Thrown(outcome) = {}
          /\ Settled(outcome) = 1..Len(outcome)
          /\ Batch_Return(mapFormat("bullionvault_001", PromiseAll(outcome, run.rows)))
    /\ UNCHANGED <<version, dataTxt, run, runs, unit, outcome>>

\* part_000 parseToFormat: parseContent with the array of the emails
BullionVault000_parseToFormat ==
    /\ unit.parser = "bullionvault_000" /\ pc = "idle"
    /\ pc' = "parsing"
    /\ outcome' = [i \in 1..Len(unit.row) |-> Pending]
    /\ UNCHANGED <<version, dataTxt, run, results, runs, unit>>

\* one turn of the loop of parseContent: the next email, after the one before
\* it has returned
BullionVault000_parseContent(i) ==
    /\ unit.parser = "bullionvault_000" /\ pc = "parsing"
    /\ Thrown(outcome) = {}
    /\ Settled(outcome) = 1..(i - 1)
    /\ outcome' = [outcome EXCEPT ![i] =
           BullionVaultParser000_parseEmailString(EmailText(unit.row[i]), unit.tz)]
    /\ run' = [run EXCEPT !.rows = Append(@, i)]
    /\ UNCHANGED <<version, dataTxt, pc, results, runs, unit>>

\* if (tx) results.push(tx)
NotNull(transactions) == SelectSeq(transactions, LAMBDA tx : tx.t # "null")

\* the loop ends: with what the parse threw, or with the lines of the transactions
BullionVault000_return ==
    /\ unit.parser = "bullionvault_000" /\ pc = "parsing"
    /\ \/ /\ Thrown(outcome) # {}
          /\ Batch_Return(Rejected)
       \/ /\ Thrown(outcome) = {}
          /\ Settled(outcome) = 1..Len(outcome)
          /\ Batch_Return(mapFormat("bullionvault_000", NotNull(outcome)))
    /\ UNCHANGED <<version, dataTxt, run, runs, unit, outcome>>

BatchNext ==
    \/ II_parseToFormat
    \/ Freetrade_parseToFormat
    \/ Fidelity_parseToFormat
    \/ BullionVault001_parseToFormat
    \/ \E i \in 1..Len(outcome) : BullionVault001_settle(i)
    \/ BullionVault001_PromiseAll
    \/ BullionVault000_parseToFormat
    \/ \E i \in 1..Len(outcome) : BullionVault000_parseContent(i)
    \/ BullionVault000_return

BatchSpec == BatchInit /\ [][BatchNext]_vars

(***************************************************************************)
(* main() of part_005: the revision that knows the type gold               *)
(***************************************************************************)
Types005 == Types \cup {"gold"}

\* GoldParser.parseAllEmails and parseToFormat: the emails of the directory one
\* after the other, the transactions that are not null formatted
GoldParser_format(parsed) ==
    IF Thrown(parsed) # {} THEN Rejected
    ELSE mapFormat("bullionvault", NotNull(parsed))

GoldParser_parseToFormat(emails, tz) ==
    GoldParser_format([i \in 1..Len(emails) |->
                          BullionVaultParser_parseEmailFile(EmailText(emails[i]), tz)])

main005_parse(type, parser, path, rows, tz) ==
    IF type # "gold" /\ path # "exists" THEN Rejected
    ELSE IF type \notin Types005 THEN Rejected
    ELSE IF type = "gold" THEN GoldParser_parseToFormat(rows, tz)
    ELSE parseToFormat(parser, rows, tz)

\* line.trim().split(/\s+/): the runs of characters that are not white space
\* (of the empty string: no token with an index above 0)
splitWhiteSpace(s) ==
    SelectSeq(splitAt(s, {i \in 1..Len(s) : IsWhiteSpace(Ch(s, i))}),
              LAMBDA w : w # "")

\* parts[2] && parts[2].toUpperCase() !== 'GOLD'
nonGold_keeps(parts) == Len(parts) >= 3 /\ toUpperCase(parts[3]) # "GOLD"

nonGold(existingTransactions) ==
    SelectSeq(existingTransactions,
              LAMBDA line : nonGold_keeps(splitWhiteSpace(trim(line))))

merge005(type, existing, new) ==
    IF type = "gold" THEN nonGold(existing) \o new ELSE existing \o new

main005_mergeAndWrite(type, file, new) ==
    main_write(file, sortTransactionsChronologically("part_005",
                         merge005(type, readExisting("part_005", file), new)))

\* the email directories of the gold runs: no email, one deal, the deal and a
\* later sale, and an email that is not about a deal
GoldDirectories ==
    {<<>>,
     <<GoodEmail>>,
     <<GoodEmail,
       [GoodEmail EXCEPT !.summary = "Summary: Sell 2kg @ GBP 50/kg",
                         !.total = "Total received: GBP 97.5",
                         !.dealTime = "Deal time: Oct 15, 2021 at 10:00:00 AM GMT"]>>,
     <<[GoodEmail EXCEPT !.summary = ""]>>}

Part005Init ==
    /\ version = "part_005"
    /\ dataTxt \in InitialFiles
    /\ pc = "idle"
    /\ run = NoRun
    /\ results = <<>>
    /\ runs = 0
    /\ unit = NoUnit
    /\ outcome = NoOutcome

\* an unknown type, or a path that does not exist with a type that reads a file
Main005_Usage(type, path) ==
    /\ Idle
    /\ runs < MaxRuns
    /\ main005_parse(type, type, path, <<>>, 0).t = "rejected"
    /\ run' = [tz |-> 0, type |-> type, parser |-> "", rows |-> <<>>, path |-> path]
    /\ runs' = runs + 1
    /\ pc' = "usage_error"
    /\ results' = <<>>
    /\ UNCHANGED <<version, dataTxt, unit, outcome>>

Main005_Parse(type, parser, rows) ==
    /\ Idle
    /\ runs < MaxRuns
    /\ Main_Parsed(main005_parse(type, parser, "exists", rows, 0))
    /\ run' = [tz |-> 0, type |-> type, parser |-> parser, rows |-> rows,
               path |-> "exists"]
    /\ runs' = runs + 1
    /\ UNCHANGED <<version, dataTxt, unit, outcome>>

\* `node index.js gold`: no path, the parser reads its own directory
Main005_Gold(emails) ==
    /\ Idle
    /\ runs < MaxRuns
    /\ Main_Parsed(main005_parse("gold", "bullionvault", "", emails, 0))
    /\ run' = [tz |-> 0, type |-> "gold", parser |-> "bullionvault", rows |-> emails,
               path |-> ""]
    /\ runs' = runs + 1
    /\ UNCHANGED <<version, dataTxt, unit, outcome>>

Main005_Merge ==
    /\ pc = "parsed"
    /\ Main_Written(main005_mergeAndWrite(run.type, dataTxt, results))
    /\ UNCHANGED <<version, run, results, runs, unit, outcome>>

Part005Next ==
    \/ \E type \in {"ii", "bullionvault"}, path \in {"exists", "absent"} :
           Main005_Usage(type, path)
    \/ \E type \in Types : \E parser \in ParsersOf(type) :
           \E rows \in PipelineInputs(parser) : Main005_Parse(type, parser, rows)
    \/ \E emails \in GoldDirectories : Main005_Gold(emails)
    \/ Main005_Merge

Part005Spec == Part005Init /\ [][Part005Next]_vars

(***************************************************************************)
(* Properties of the merge pipeline (specification Spec)                   *)
(***************************************************************************)
Range(seq) == {seq[i] : i \in 1..Len(seq)}

NoDuplicates(seq) == \A i, j \in 1..Len(seq) : i < j => seq[i] # seq[j]

\* the lines a file holds: split at line feeds, trimmed, blank lines dropped
LinesOf(file) ==
    IF file.exists THEN SelectNonBlank(TrimEach(split(file.content, "\n"))) ELSE <<>>

SecondToken(line) == IF Len(split(line, " ")) >= 2 THEN split(line, " ")[2] ELSE ""

\* the token read as day/month/year integers: <<year, month, day>>, or <<>> when
\* it is not three integers naming a calendar date
DateKey_parts(p) ==
    IF Len(p) = 3 /\ AllDigits(p[1]) /\ AllDigits(p[2]) /\ AllDigits(p[3])
    THEN <<digitsValue(p[3], 1, Len(p[3])), digitsValue(p[2], 1, Len(p[2])),
           digitsValue(p[1], 1, Len(p[1]))>>
    ELSE <<>>

DateKey_checked(k) ==
    IF Len(k) = 3 /\ IsCalendarDate(k[1], k[2], k[3]) THEN k ELSE <<>>

DateKey(line) == DateKey_checked(DateKey_parts(split(SecondToken(line), "/")))

HasParsableDate(line) == DateKey(line) # <<>>

NotLater(a, b) ==
    \/ a[1] < b[1]
    \/ a[1] = b[1] /\ a[2] < b[2]
    \/ a[1] = b[1] /\ a[2] = b[2] /\ a[3] <= b[3]

Chronological(lines) ==
    \A i \in 1..(Len(lines) - 1) :
        HasParsableDate(lines[i]) /\ HasParsableDate(lines[i + 1])
            => NotLater(DateKey(lines[i]), DateKey(lines[i + 1]))

DedupRevisions == {"index.js", "part_004"}

\* C1: in the revisions of main() that deduplicate (index.js, part_004), a merge
\* that succeeds writes every distinct line of the old file and of the new lines
\* exactly once: lines that are equal strings become one line, lines that differ
\* in any character are both kept.
C1_DedupByExactEquality ==
    [][(pc = "parsed" /\ pc' = "done" /\ version \in DedupRevisions)
        => /\ NoDuplicates(LinesOf(dataTxt'))
           /\ Range(LinesOf(dataTxt'))
                = Range(LinesOf(dataTxt)) \cup (Range(TrimEach(results)) \ {""})]_vars

\* a second run brought a line the file already held and the file also holds a
\* line that differs from another in one character
C1_Witness ==
    /\ pc = "done" /\ version = "index.js" /\ run.parser = "ii"
    /\ results = <<"SELL 01/01/2020 B3X7QG6 4 3 0">>
    /\ LinesOf(dataTxt) = <<"SELL 01/01/2020 B3X7QG6 4 3 0",
                            "BUY 15/06/2021 GB00B3X7QG63 10 50 0.50",
                            "BUY 15/06/2021 GB00B3X7QG63 10 50 0.5">>

C3_IdempotentMerge ==
    pc = "done" => main_mergeAndWrite(version, dataTxt, results).file = dataTxt

\* C4: a merged line set that holds a line without a day/month/year date in its
\* second token is never written: the run fails instead, whatever the number of
\* lines.
C4_MalformedLineFails ==
    pc = "done" => \A i \in 1..Len(LinesOf(dataTxt)) : HasParsableDate(LinesOf(dataTxt)[i])

FailedRun == {"usage_error", "parse_error", "sort_error"}

\* C5: a run that fails leaves data.txt as it was, and data.txt changes only in
\* the step that follows a successful parse and ends a successful sort.
C5_FailedRunWritesNothing ==
    [][/\ pc' \in FailedRun => dataTxt' = dataTxt
       /\ dataTxt' # dataTxt => pc = "parsed" /\ pc' = "done"]_vars

\* the sort threw on a file that existed, and the file is still the one it was
C5_Witness ==
    /\ pc = "sort_error" /\ runs = 1
    /\ dataTxt = File("CORRUPT\n")
    /\ results # <<>>

(***************************************************************************)
(* Properties of the row parsers (specification RowSpec)                   *)
(***************************************************************************)
Done == outcome # NoOutcome

Recorded == Done /\ outcome.parsed.t = "record"

IsTrade == Recorded /\ outcome.parsed.rec.kind \in {"BUY", "SELL"}

IsFidelity == unit.parser \in {"fidelity_v1", "fidelity", "fidelity_002"}

\* the quantity column of the unit: a Freetrade dividend row carries it in
\* "Dividend Eligible Quantity"
QuantityOf(u) ==
    IF u.parser = "freetrade" /\ toLowerCase(u.row.Type) = "dividend"
    THEN parseFloat(u.row.Dividend_Eligible_Quantity)
    ELSE parseFloat(u.row.Quantity)

\* C6: a row whose quantity is zero is skipped by every CSV parser: no error,
\* no record, no line.
C6_ZeroQuantityExcluded ==
    (Done /\ IsZero(QuantityOf(unit))) => outcome.parsed.t = "null"

DebitPresent(u) == IsPositive(IIParser_parseAmount(u.row.Debit))
CreditPresent(u) == IsPositive(IIParser_parseAmount(u.row.Credit))

\* the kind the directional field of the source stands for, "" when it gives none
DirectionOf(u) ==
    IF IsPositive(parseFloat(u.row.Quantity)) THEN "BUY"
    ELSE IF IsNegative(parseFloat(u.row.Quantity)) THEN "SELL"
    ELSE ""

\* the signals of the row contradict each other: quantity against amount
\* (Fidelity), quantity against the debit or credit that is present (II)
Contradictory(u) ==
    IF u.parser = "ii"
    THEN \/ DirectionOf(u) = "BUY" /\ ~DebitPresent(u) /\ CreditPresent(u)
         \/ DirectionOf(u) = "SELL" /\ DebitPresent(u) /\ ~CreditPresent(u)
    ELSE IF u.parser \in {"fidelity_v1", "fidelity", "fidelity_002"}
    THEN \/ DirectionOf(u) = "BUY" /\ IsNegative(parseFloat(u.row.Amount))
         \/ DirectionOf(u) = "SELL" /\ IsPositive(parseFloat(u.row.Amount))
    ELSE FALSE

DirectionParsers == {"ii", "fidelity", "fidelity_002"}

\* C7: the kind of a trade record of the II parser and of the Fidelity parser
\* (fidelity.js second revision, part_002) is the one the quantity sign stands
\* for, and a trade row whose signals contradict each other throws.
C7_KindAgreesWithDirection ==
    /\ (IsTrade /\ unit.parser \in DirectionParsers)
           => outcome.parsed.rec.kind = DirectionOf(unit)
    /\ (Done /\ unit.parser \in DirectionParsers /\ Contradictory(unit)
             /\ outcome.parsed.t # "null")
           => outcome.parsed.t = "throw"
    /\ (Done /\ unit.parser \in DirectionParsers /\ Contradictory(unit)
             /\ outcome.parsed.t = "null")
           => \/ IsFidelity /\ FidelityParser_isNonTransaction(
                     toLowerCase(unit.row.Transaction_type), unit.row.Investments)
              \/ unit.parser = "ii" /\ IIParser_isNonTransaction(
                     toLowerCase(unit.row.Description))

\* C8: an II row that is a transaction with a non-zero quantity and has both a
\* debit and a credit, or neither, throws.
C8_AmbiguousDirectionFails ==
    (/\ Done /\ unit.parser = "ii"
     /\ ~IIParser_isNonTransaction(toLowerCase(unit.row.Description))
     /\ isFinite(QuantityOf(unit)) /\ ~IsZero(QuantityOf(unit))
     /\ DebitPresent(unit) = CreditPresent(unit))
        => outcome.parsed.t = "throw"

\* C9: the amount of every trade record is finite and strictly positive.
C9_AmountStrictlyPositive ==
    IsTrade => /\ isFinite(outcome.parsed.rec.amount)
               /\ IsPositive(outcome.parsed.rec.amount)

\* C10: the price of every trade record is finite and strictly positive.
C10_PriceStrictlyPositive ==
    IsTrade => /\ isFinite(outcome.parsed.rec.price)
               /\ IsPositive(outcome.parsed.rec.price)

\* a token of the form DD/MM/YYYY with a day of 1..31 and a month of 1..12
IsDateForm(s) ==
    /\ Len(s) = 10
    /\ AllDigits(substring(s, 1, 2)) /\ Ch(s, 3) = "/"
    /\ AllDigits(substring(s, 4, 5)) /\ Ch(s, 6) = "/"
    /\ AllDigits(substring(s, 7, 10))
    /\ digitsValue(s, 1, 2) \in 1..31
    /\ digitsValue(s, 4, 2) \in 1..12

\* C11: the date of every record a CSV parser produces has the form DD/MM/YYYY
\* with a day of 1..31 and a month of 1..12; a source date that does not
\* resolve to a calendar date never reaches a record.
C11_DateFieldCanonical == Recorded => IsDateForm(outcome.parsed.rec.date)

(***************************************************************************)
(* Properties of the email parsers (specification EmailSpec)               *)
(***************************************************************************)
MonetaryFields == {"summary", "consideration", "commission", "total"}

\* a monetary line of the email names a currency other than GBP
ForeignCurrency(row) == \E f \in MonetaryFields : includes(row[f], "USD")

\* C12: an email with a currency other than GBP in its summary, consideration,
\* commission or total line gives no record.
C12_ForeignCurrencyFails == (Done /\ ForeignCurrency(unit.row)) => ~Recorded

\* the email has a Summary line the parser reads
HasSummary(row) == SUMMARY_OR_DEAL_RE(row.summary).matched

\* the email has no commission line, or one without a number
NoNumericCommission(row) == amountLength(row.commission, Len(row.commission)) = 0

\* C13: an email with a valid summary line and no numeric commission fails with
\* an error and gives no record.
C13_MissingCommissionFails ==
    (Done /\ HasSummary(unit.row) /\ NoNumericCommission(unit.row))
        => outcome.parsed.t = "throw"

\* C14: an email without a Summary/Deal line fails with an error; it is never
\* skipped.
C14_MissingSummaryFails ==
    (Done /\ unit.row.summary = "") => outcome.parsed.t = "throw"

\* the email is well formed apart from its Date header, its Deal time line and
\* the way its body is encoded
DateOnlyChanges(row) ==
    \A f \in EmailFields \ {"header", "dealTime", "wrap"} : row[f] = GoodEmail[f]

\* C15: the date of the record is the one of the Deal time line when that line
\* is parsable, else the one of the Date header; the parse fails only when
\* neither gives a date.
C15_DateResolution ==
    (Done /\ DateOnlyChanges(unit.row)) =>
        IF unit.row.dealTime = GoodEmail.dealTime
        THEN Recorded /\ outcome.parsed.rec.date = "14/10/2021"
        ELSE IF unit.row.header # ""
        THEN Recorded /\ outcome.parsed.rec.date = "15/10/2021"
        ELSE outcome.parsed.t = "throw"

\* the asset the lines of the email name: the keyword of the Security line when
\* there is one, else the keyword found in the rest of the text
ExpectedAsset(row) ==
    IF row.security # ""
    THEN (IF includes(row.security, "Gold") THEN "GOLD"
          ELSE IF includes(row.security, "Silver") THEN "SILVER" ELSE "")
    ELSE IF includes(row.extra, "gold") THEN "GOLD" ELSE ""

\* C16: the asset of a record is the one named by the Security line when the
\* email has one, and by the whole text otherwise; an email that names no
\* asset there gives no record.
C16_AssetFromSecurityLine ==
    Recorded => /\ ExpectedAsset(unit.row) # ""
                /\ outcome.parsed.rec.asset = ExpectedAsset(unit.row)

(***************************************************************************)
(* Properties of the output lines (specifications FormatSpec and RowSpec)  *)
(***************************************************************************)
\* C17: formatting a record of an unknown kind fails for every formatter, and
\* parseToFormat gives one non-empty line for every record or fails.
C17_UnknownKindFails ==
    Done => /\ unit.row.kind \notin KnownKinds => outcome.line.t = "throw"
            /\ pc = "rejected" \/ (Len(results) = 1 /\ results[1] # "")

\* the number of fields of a line of the kind
FieldCount(kind) ==
    IF kind \in {"BUY", "SELL"} THEN 6
    ELSE IF kind \in {"DIVIDEND", "CAPRETURN"} THEN 5
    ELSE 4

\* C18: the line of a record has exactly the fields of its kind: six for a trade,
\* five for a distribution, four for a split; no field holds a space.
C18_FieldCount ==
    (Recorded /\ outcome.line.t = "line")
        => Len(split(outcome.line.line, " ")) = FieldCount(outcome.parsed.rec.kind)

ScenarioRow ==
    FidelityRow("15 Oct 2021", "Buy", "Vanguard FTSE Global All Cap", "-500", "10", "50")

\* C19: the Fidelity parser turns the row of 15 Oct 2021, Buy, Vanguard FTSE
\* Global All Cap, Amount -500, Quantity 10, Price per unit 50 into the line
\* BUY 15/10/2021 FTSE_Global_All_Cap 10 50 0.
C19_FidelityScenario ==
    (Done /\ unit.parser \in {"fidelity_v1", "fidelity", "fidelity_002"}
          /\ unit.row = ScenarioRow)
        => outcome.line = Line("BUY 15/10/2021 FTSE_Global_All_Cap 10 50 0")

\* getFullYear, getMonth + 1 and getDate of new Date(year, monthIndex, day)
RECURSIVE CarryDays(_, _, _)
CarryDays(y, m, d) ==
    IF d <= DaysInMonth(y, m) THEN CivilDate(y, m, d)
    ELSE IF m < 12 THEN CarryDays(y, m + 1, d - DaysInMonth(y, m))
    ELSE CarryDays(y + 1, 1, d - DaysInMonth(y, m))

DateOfParts(year, monthIndex, day) ==
    IF day < 1 \/ monthIndex < 0 THEN InvalidDate
    ELSE CarryDays((IF year <= 99 THEN 1900 + year ELSE year) + (monthIndex \div 12),
                   (monthIndex % 12) + 1, day)

\* the calendar date the comparator of the merge reads from a date token
PipelineDate_of(p) ==
    DateOfParts(p.year.v \div Unit, (p.month.v \div Unit) - 1, p.day.v \div Unit)

PipelineDate(token) ==
    IF HasDayMonthYear(token) THEN PipelineDate_of(DayMonthYear(token)) ELSE InvalidDate

\* the day, month and year a record's date names
RecordDate(date) ==
    IF IsDateForm(date)
    THEN CivilDate(digitsValue(date, 7, 4), digitsValue(date, 4, 2), digitsValue(date, 1, 2))
    ELSE InvalidDate

\* C20: the date token of the line of a record, read by the date parser of the
\* merge, is a date, with the day, month and year of the record's date.
C20_DateRoundTrip ==
    (Recorded /\ outcome.line.t = "line")
        => /\ PipelineDate(DateField(outcome.line.line)).valid
           /\ PipelineDate(DateField(outcome.line.line))
                = RecordDate(outcome.parsed.rec.date)

(***************************************************************************)
(* Properties of parseToFormat (specification BatchSpec)                   *)
(***************************************************************************)
Returned == pc \in {"resolved", "rejected"}

\* what the parser makes of every unit of the input, read one by one
UnitOutcomes(parser, rows, tz) ==
    [i \in 1..Len(rows) |->
        IF parser \in Parsers THEN parseRow(parser, rows[i], tz)
        ELSE IF parser = "bullionvault_000"
        THEN BullionVaultParser000_parseEmailString(EmailText(rows[i]), tz)
        ELSE BullionVaultParser001_parseEmailString(EmailText(rows[i]), tz)]

\* the lines of the units that gave a record, in the order of the units
RECURSIVE AcceptedLines(_, _)
AcceptedLines(parser, parsed) ==
    IF Len(parsed) = 0 THEN <<>>
    ELSE (IF parsed[1].t = "record"
          THEN <<formatTransaction(parser, parsed[1].rec).line>> ELSE <<>>)
         \o AcceptedLines(parser, Tail(parsed))

\* the result of parseToFormat on the same input in a given local time zone
BatchResult_of(parser, parsed) ==
    IF Thrown(parsed) # {} THEN Rejected ELSE Resolved(AcceptedLines(parser, parsed))

BatchResult(parser, rows, tz) == BatchResult_of(parser, UnitOutcomes(parser, rows, tz))

\* the lines returned are those of the units that gave a record, one for each,
\* in the order of the units
LinesInInputOrder ==
    pc = "resolved" =>
        results = AcceptedLines(unit.parser, UnitOutcomes(unit.parser, unit.row, unit.tz))

\* what was returned, lines or failure, is what the same content gives in every
\* local time zone
ContentOnly ==
    \A tz \in TimeZones :
        BatchResult(unit.parser, unit.row, tz) = [t |-> pc, lines |-> results]

\* C21: parseToFormat returns the lines of the units that gave a record, one
\* line for each, in the order of the units in the input, with nothing for a
\* unit that was skipped, and what it returns depends on the content alone.
C21_LinesInInputOrder == Returned => (LinesInInputOrder /\ ContentOnly)

EmailBatch == unit.parser \in {"bullionvault_000", "bullionvault_001"}

\* C22: the lines of a batch of emails are handed over only when every parse
\* has returned, the sorted output is the one the emails give when they are
\* parsed one after the other, whatever the order in which the parses settled,
\* and a batch in which one parse threw fails and hands over no line.
C22_BatchSettlesAsOne ==
    EmailBatch =>
        /\ pc = "resolved" =>
               /\ Settled(outcome) = 1..Len(outcome)
               /\ sortTransactionsChronologically(version, results)
                    = sortTransactionsChronologically(version,
                          BatchResult(unit.parser, unit.row, unit.tz).lines)
        /\ Thrown(outcome) # {} => (pc # "resolved" /\ results = <<>>)

\* two emails of the same day were parsed at once, the second settled first,
\* and the lines came out in the order of the emails
C22_Witness ==
    /\ unit.parser = "bullionvault_001" /\ pc = "resolved"
    /\ run.rows = <<2, 1>>
    /\ results = <<"BUY 14/10/2021 GOLD 2 50 2.5", "BUY 14/10/2021 SILVER 2 50 2.5">>

\* one email of a batch of two threw after the other had given its record
C22_FailedBatch ==
    /\ EmailBatch /\ pc = "rejected"
    /\ Len(outcome) = 2 /\ outcome[1].t = "record" /\ outcome[2].t = "throw"

(***************************************************************************)
(* Properties of the outcome of one unit (specification RowSpec)           *)
(***************************************************************************)
\* the relevance classifier of the parser takes the row for a transaction
Accepted(u) ==
    IF u.parser = "ii"
    THEN /\ u.row.Quantity # "" /\ toLowerCase(u.row.Quantity) # "n/a"
         /\ ~IIParser_isNonTransaction(toLowerCase(u.row.Description))
         /\ ~IsZero(parseFloat(u.row.Quantity))
    ELSE IF u.parser = "freetrade"
    THEN \/ /\ toLowerCase(u.row.Type) = "order"
            /\ toLowerCase(u.row.Buy_Sell) \in {"buy", "sell"}
         \/ toLowerCase(u.row.Type)
                \in {"dividend", "special_dividend", "capital", "capital return"}
    ELSE IF u.parser = "fidelity_002"
    THEN toLowerCase(u.row.Transaction_type) \in supportedTransactionTypes
    ELSE ~FidelityParser_isNonTransaction(toLowerCase(u.row.Transaction_type),
                                          u.row.Investments)

\* the text of the quantity column the parser reads for this row
QuantityText(u) ==
    IF u.parser = "freetrade" /\ toLowerCase(u.row.Type) = "dividend"
    THEN u.row.Dividend_Eligible_Quantity
    ELSE u.row.Quantity

NonNumericQuantity(u) == QuantityText(u) # "" /\ isNaN(parseFloat(QuantityText(u)))

\* C23: every unit ends as a record, a skip or a failure, and a row the
\* classifier took for a transaction whose quantity is not a number or whose
\* direction signals contradict each other ends as a failure, never as a skip.
C23_InvalidFieldFails ==
    Done =>
        /\ outcome.parsed.t \in {"record", "null", "throw"}
        /\ (Accepted(unit) /\ (NonNumericQuantity(unit) \/ Contradictory(unit)))
               => outcome.parsed.t = "throw"

\* C24: the outcome of a parse (the record with its date, the skip or the
\* failure) is the one the same row gives in every local time zone.
C24_SameOutcomeInEveryTimeZone ==
    Done =>
        \A tz \in TimeZones :
            Emitted(unit.parser, parseRow(unit.parser, unit.row, tz)) = outcome

(***************************************************************************)
(* Properties of the merged line set (specification Spec)                  *)
(***************************************************************************)
\* the array handed to the sort by a run that has parsed its input
Merged == merge(version, readExisting(version, dataTxt), results)

OfDay(lines, day) == SelectSeq(lines, LAMBDA line : DateKey(line) = day)

\* C26: when the sort succeeds, the lines of the merged set that carry the same
\* calendar date stand in the sorted array in the order they had in the merged
\* set.
C26_StableSort ==
    (pc = "parsed" /\ sortTransactionsChronologically(version, Merged).t = "sorted") =>
        \A i \in 1..Len(Merged) :
            HasParsableDate(Merged[i]) =>
                OfDay(sortTransactionsChronologically(version, Merged).lines,
                      DateKey(Merged[i]))
                  = OfDay(Merged, DateKey(Merged[i]))

\* data.txt held a line of 15/06/2021 before a line of 2020, the run brought
\* another line of 15/06/2021, and the line of the file stands before the new one
C26_Witness ==
    /\ pc = "done" /\ runs = 1 /\ version = "index.js"
    /\ results = <<"BUY 15/06/2021 GB00B3X7QG63 10 50 0.5">>
    /\ LinesOf(dataTxt) = <<"SELL 01/01/2020 B3X7QG6 4 3 0",
                            "BUY 15/06/2021 GB00B3X7QG63 10 50 0.50",
                            "BUY 15/06/2021 GB00B3X7QG63 10 50 0.5">>

\* the fund name holds the family name, and what follows it up to the next comma
HasFamily(name, family) == includes(name, family)

AfterFamily(name, family) ==
    substring(name,
              First({i \in 1..Len(name) : substring(name, i, i + Len(family) - 1) = family})
                  + Len(family),
              Len(name))

UpToComma(s) == substring(s, 1, nonCommaRun(s, 1))

RECURSIVE AlphanumericWords(_)
AlphanumericWords(words) ==
    IF Len(words) = 0 THEN <<>>
    ELSE <<removeChars(keepWordCharacters(words[1]), {"_"})>>
         \o AlphanumericWords(Tail(words))

FirstThree(words) == SubSeq(words, 1, IF Len(words) < 3 THEN Len(words) ELSE 3)

\* the identifier the fund name stands for
IdentifierOf(name) ==
    IF \E k \in 1..Len(FundFamilies) : HasFamily(name, FundFamilies[k])
    THEN replaceWhiteSpaceRuns(
             trim(UpToComma(AfterFamily(name,
                 FundFamilies[First({k \in 1..Len(FundFamilies) :
                                       HasFamily(name, FundFamilies[k])})]))), "_")
    ELSE join(AlphanumericWords(FirstThree(Words(replaceWhiteSpaceRuns(name, " ")))), "_")

\* C27: the asset of a Fidelity record is the identifier its fund name stands
\* for (the text after a known family name up to the next comma, white space
\* runs as underscores; else the first three words without their
\* non-alphanumeric characters), and a name that gives no identifier gives no
\* record.
C27_AssetIdentifier ==
    (Done /\ IsFidelity) =>
        /\ Recorded => outcome.parsed.rec.asset = IdentifierOf(unit.row.Investments)
        /\ IdentifierOf(unit.row.Investments) = "" => ~Recorded

\* the columns of the row that hold a price, an amount of money or a fee
MoneyColumns(u) ==
    IF u.parser = "ii" THEN {"Price", "Debit", "Credit"}
    ELSE IF u.parser = "freetrade" THEN {"Price_per_Share", "Stamp_Duty", "FX_Fee_Amount"}
    ELSE {"Price_per_unit", "Amount"}

\* text that is left without a finite number once separators and currency
\* symbols are taken away
Unparsable(text) ==
    text # "" /\ ~isFinite(parseFloat(removeChars(text, CurrencySymbols)))

\* C28: a row the classifier took for a transaction, with a quantity that is
\* not zero, that holds unparsable text in a price, debit, credit or fee column
\* ends as a failure: no record is made with a number put in the place of the
\* text, and the row is not skipped.
C28_UnparsableNumberFails ==
    (/\ Done /\ Accepted(unit) /\ ~IsZero(QuantityOf(unit))
     /\ \E c \in MoneyColumns(unit) : Unparsable(unit.row[c]))
        => outcome.parsed.t = "throw"

(***************************************************************************)
(* Properties of the decoding of the email body (specification EmailSpec)  *)
(***************************************************************************)
\* what the parser of the unit makes of a text
ParseEmail(parser, text, tz) ==
    IF parser = "bullionvault" THEN BullionVaultParser_parseEmailFile(text, tz)
    ELSE IF parser = "bullionvault_000"
    THEN BullionVaultParser000_parseEmailString(text, tz)
    ELSE BullionVaultParser001_parseEmailString(text, tz)

\* C29: an email whose body is quoted-printable with soft line breaks inside
\* its lines, or wrapped in tags, gives what the same email gives as plain
\* text, and a file that holds nothing once the tags are stripped fails.
C29_DecodedBeforeMatching ==
    Done =>
        /\ unit.row.wrap \in {"soft", "html"} =>
               outcome.parsed
                 = ParseEmail(unit.parser, EmailText([unit.row EXCEPT !.wrap = "plain"]),
                              unit.tz)
        /\ unit.row.wrap = "markup" => outcome.parsed.t = "throw"

(***************************************************************************)
(* Properties of the persisted lines (specification Part005Spec)           *)
(***************************************************************************)
\* C30: a run that succeeds removes no line from data.txt: every line of the
\* file before the run that is not blank is, trimmed, a line of the file after
\* it, whichever type the run was given.
C30_PersistedLinesOnlyGrow ==
    [][(pc = "parsed" /\ pc' = "done")
        => Range(LinesOf(dataTxt)) \subseteq Range(LinesOf(dataTxt'))]_vars

====
